---- MODULE Spec2Model ----
(***************************************************************************)
(* Workout logging and template guidance engine                            *)
(* (src/agentkit/plugins/tools/workout.py, class WorkoutToolset).          *)
(*                                                                         *)
(* The store is the SQLite file: five tables, each kept here as the        *)
(* sequence of its committed rows in insertion (rowid) order.  Every       *)
(* public operation opens its own handle; a handle that an operation       *)
(* leaves open when it raises is kept in leakedHandles/openTxn until the   *)
(* runtime finalizes it (Finalize), which rolls its transaction back.      *)
(* While such a handle holds the write lock every other write fails with   *)
(* "database is locked".                                                   *)
(***************************************************************************)
EXTENDS Integers, Sequences, FiniteSets, TLC

VARIABLES
    exercises,           \* table exercises
    workouts,            \* table workouts
    workout_sets,        \* table workout_sets
    templates,           \* table templates
    template_exercises,  \* table template_exercises
    current_workout_id,  \* self.current_workout_id
    leakedHandles,       \* handles opened by an operation and never closed
    openTxn,             \* the uncommitted transaction of a leaked handle
    last,                \* the last call: operation, arguments, outcome
    calls                \* the logSet call each engine on the file has under way

vars == <<exercises, workouts, workout_sets, templates, template_exercises,
          current_workout_id, leakedHandles, openTxn, last, calls>>

tables == <<exercises, workouts, workout_sets, templates, template_exercises>>

----------------------------------------------------------------------------
(* Bounds *)

MaxWorkouts == 2     \* rows of table workouts
MaxSets == 3         \* rows of table workout_sets
MaxTemplates == 2    \* rows of table templates
MaxBatch == 2        \* entries in one sets_data batch
MaxEntries == 2      \* entries in one template's exercise list
MaxLeaked == 2       \* handles left open at the same time
MaxNameLen == 4      \* characters of an exercise name
MaxExercises == 2    \* rows of table exercises in the registry specification
MaxToolsExercises == 1  \* rows of table exercises that register adds to, all operations
MaxToolsTemplates == 1  \* rows of table templates, all operations
MaxToolsSets == 1       \* rows of table workout_sets that logSet adds to, all operations

----------------------------------------------------------------------------
(* Values *)

NoId == 0                 \* None where an id is expected
UnknownId == 99           \* an id that no row has
NoneNum == 0 - 1          \* None where a number is expected
NoneStr == "None"         \* None where a text is expected
NoName == <<"None">>      \* None where a name is expected

Max(a, b) == IF a >= b THEN a ELSE b

\* the outcomes of a call: "ok" or the exception it raises
NoActiveWorkout == "NoActiveWorkout"   \* ValueError("No active workout ...")
NotFound == "NotFound"                 \* ValueError("... not found")
InvalidArgument == "InvalidArgument"   \* ValueError("Invalid reps" / empty name / empty list)
IntegrityError == "IntegrityError"     \* sqlite3.IntegrityError: FOREIGN KEY constraint failed
DatabaseLocked == "DatabaseLocked"     \* sqlite3.OperationalError: database is locked
NoWorkoutSpecified == "NoWorkoutSpecified"  \* ValueError("No workout specified.")

----------------------------------------------------------------------------
(* Sequences *)

Range(s) == {s[i] : i \in 1..Len(s)}

RECURSIVE InsertSorted(_, _)
\* the pair <<key, row>> x put into the key-sorted sequence s after every
\* element whose key is <= its own
InsertSorted(s, x) ==
    IF s = <<>> THEN <<x>>
    ELSE IF Head(s)[1] <= x[1] THEN <<Head(s)>> \o InsertSorted(Tail(s), x)
    ELSE <<x>> \o s

RECURSIVE SortPairs(_)
\* stable ascending sort of <<key, row>> pairs by key
SortPairs(s) ==
    IF s = <<>> THEN <<>>
    ELSE InsertSorted(SortPairs(SubSeq(s, 1, Len(s) - 1)), s[Len(s)])

Rows(pairs) == [i \in 1..Len(pairs) |-> pairs[i][2]]

----------------------------------------------------------------------------
(* Normalizer *)

Alphabet == {"a", "A", " "}

IsSpace(c) == c = " "

Lower(c) == IF c = "A" THEN "a" ELSE c

RECURSIVE LStrip(_)
LStrip(s) == IF s # <<>> /\ IsSpace(Head(s)) THEN LStrip(Tail(s)) ELSE s

RECURSIVE RStrip(_)
RStrip(s) ==
    IF s # <<>> /\ IsSpace(s[Len(s)]) THEN RStrip(SubSeq(s, 1, Len(s) - 1)) ELSE s

\* str.strip()
Strip(s) == RStrip(LStrip(s))

\* str.lower()
LowerCase(s) == [i \in 1..Len(s) |-> Lower(s[i])]

RECURSIVE Split(_, _)
\* str.split(): the maximal runs of non-space characters; word is the run being read
Split(s, word) ==
    IF s = <<>> THEN (IF word = <<>> THEN <<>> ELSE <<word>>)
    ELSE IF IsSpace(Head(s))
         THEN (IF word = <<>> THEN <<>> ELSE <<word>>) \o Split(Tail(s), <<>>)
         ELSE Split(Tail(s), Append(word, Head(s)))

RECURSIVE Join(_)
\* " ".join(words)
Join(words) ==
    IF words = <<>> THEN <<>>
    ELSE IF Len(words) = 1 THEN words[1]
    ELSE words[1] \o <<" ">> \o Join(Tail(words))

\* variant that keeps the case of the letters
NormalizeKeepingCase(name) == Join(Split(Strip(name), <<>>))

\* " ".join(name.strip().lower().split())
_normalize_name(name) == Join(Split(LowerCase(Strip(name)), <<>>))

----------------------------------------------------------------------------
(* Handles and transactions *)

NoTxn == [active |-> FALSE, exercises |-> <<>>, templates |-> <<>>,
          template_exercises |-> <<>>, workout_sets |-> <<>>]

\* another handle holds the write lock: a write through a new handle raises
\* "database is locked" once the busy timeout has passed
Locked == openTxn.active

\* an operation raises after _get_conn() without conn.close(): its handle stays
\* open, with the transaction txn when it had begun one
Leak(txn) ==
    /\ leakedHandles < MaxLeaked
    /\ leakedHandles' = leakedHandles + 1
    /\ openTxn' = IF txn.active THEN txn ELSE openTxn

\* the operation closed its handle
Closed == UNCHANGED <<leakedHandles, openTxn>>

\* what the last call was and what it gave back: "ok" and the returned
\* object, or the exception raised; args holds the arguments of the calls whose
\* result does not tell them (register, infer), and is empty for the others
CallWith(op, args, error, value) ==
    [op |-> op, args |-> args, error |-> error, value |-> value]

Call(op, error, value) == CallWith(op, <<>>, error, value)

NoCall == Call("none", "ok", <<>>)

\* uuid4() and now() for a new row of a table: a value no row of the table has,
\* later than the timestamp of every row of the table
RECURSIVE MaxId(_)
MaxId(rows) == IF rows = <<>> THEN 0 ELSE Max(Head(rows).id, MaxId(Tail(rows)))

Fresh(rows) == MaxId(rows) + 1

----------------------------------------------------------------------------
(* Queries *)

ExerciseById(id) == SelectSeq(exercises, LAMBDA e : e.id = id)

ExerciseByName(rows, normalized) == SelectSeq(rows, LAMBDA e : e.name = normalized)

WorkoutById(id) == SelectSeq(workouts, LAMBDA w : w.id = id)

SetsOf(workout_id, exercise_id) ==
    SelectSeq(workout_sets,
              LAMBDA r : r.workout_id = workout_id /\ r.exercise_id = exercise_id)

RECURSIVE MaxSetNumber(_)
\* SELECT MAX(set_number); None (here 0) when there is no row
MaxSetNumber(rows) ==
    IF rows = <<>> THEN 0 ELSE Max(Head(rows).set_number, MaxSetNumber(Tail(rows)))

\* variant that numbers the sets of a workout without telling exercises apart
NextSetNumberInWorkout(workout_id, exercise_id) ==
    MaxSetNumber(SelectSeq(workout_sets, LAMBDA r : r.workout_id = workout_id)) + 1

_get_next_set_number(workout_id, exercise_id) ==
    MaxSetNumber(SetsOf(workout_id, exercise_id)) + 1

\* variant that prefers the current workout to the one the caller names
CurrentWorkoutFirst(workout_id) ==
    IF current_workout_id # NoId THEN current_workout_id ELSE workout_id

\* target_workout_id = workout_id or self.current_workout_id
TargetWorkout(workout_id) ==
    IF workout_id # NoId THEN workout_id ELSE current_workout_id

----------------------------------------------------------------------------
(* Engines on one database file *)

\* two WorkoutToolset objects with the same db_path
Engines == {1, 2}

\* an engine that has no log_exercise under way
NoLog == [pc |-> "idle"]

----------------------------------------------------------------------------
(* State after construction: initialize() has created the empty tables *)

Init ==
    /\ exercises = <<>>
    /\ workouts = <<>>
    /\ workout_sets = <<>>
    /\ templates = <<>>
    /\ template_exercises = <<>>
    /\ current_workout_id = NoId
    /\ leakedHandles = 0
    /\ openTxn = NoTxn
    /\ last = NoCall
    /\ calls = [engine \in Engines |-> NoLog]

----------------------------------------------------------------------------
(* Exercise registry *)

\* the row _find_or_create_exercise and create_exercise insert
ExerciseRow(id, name, category) ==
    [id |-> id, name |-> _normalize_name(name), display_name |-> Strip(name),
     category |-> category, created_at |-> id]

\* variant that writes the category of a repeated registration to the row
RegisterUpdatingCategory(name, category) ==
    LET normalized == _normalize_name(name)
        existing == ExerciseByName(exercises, normalized)
        exercise_id == Fresh(exercises)
    IN
    IF normalized = <<>>
    THEN /\ last' = CallWith("create_exercise", <<name>>, InvalidArgument, <<>>)
         /\ UNCHANGED <<tables, current_workout_id, leakedHandles, openTxn>>
    ELSE IF Locked
    THEN /\ Leak(NoTxn)
         /\ last' = CallWith("create_exercise", <<name>>, DatabaseLocked, <<>>)
         /\ UNCHANGED <<tables, current_workout_id>>
    ELSE IF existing # <<>>
    THEN /\ exercises' = [i \in 1..Len(exercises) |->
                             IF exercises[i].id = existing[1].id
                             THEN [exercises[i] EXCEPT !.category = category]
                             ELSE exercises[i]]
         /\ Closed
         /\ last' = CallWith("create_exercise", <<name>>, "ok",
                             [status |-> "already_exists", id |-> existing[1].id,
                              name |-> existing[1].display_name,
                              category |-> category])
         /\ UNCHANGED <<workouts, workout_sets, templates, template_exercises,
                        current_workout_id>>
    ELSE /\ exercises' = Append(exercises, ExerciseRow(exercise_id, name, category))
         /\ Closed
         /\ last' = CallWith("create_exercise", <<name>>, "ok",
                             [status |-> "success", id |-> exercise_id,
                              name |-> Strip(name), category |-> category])
         /\ UNCHANGED <<workouts, workout_sets, templates, template_exercises,
                        current_workout_id>>

\* register(name, category)
create_exercise(name, category) ==
    LET normalized == _normalize_name(name)
        existing == ExerciseByName(exercises, normalized)
        exercise_id == Fresh(exercises)
    IN
    IF normalized = <<>>
    THEN /\ last' = CallWith("create_exercise", <<name>>, InvalidArgument, <<>>)
         /\ UNCHANGED <<tables, current_workout_id, leakedHandles, openTxn>>
    ELSE IF existing # <<>>
    THEN /\ last' = CallWith("create_exercise", <<name>>, "ok",
                             [status |-> "already_exists", id |-> existing[1].id,
                              name |-> existing[1].display_name,
                              category |-> existing[1].category])
         /\ UNCHANGED <<tables, current_workout_id, leakedHandles, openTxn>>
    ELSE IF Locked
    THEN /\ Leak(NoTxn)
         /\ last' = CallWith("create_exercise", <<name>>, DatabaseLocked, <<>>)
         /\ UNCHANGED <<tables, current_workout_id>>
    ELSE /\ exercises' = Append(exercises, ExerciseRow(exercise_id, name, category))
         /\ Closed
         /\ last' = CallWith("create_exercise", <<name>>, "ok",
                             [status |-> "success", id |-> exercise_id,
                              name |-> Strip(name), category |-> category])
         /\ UNCHANGED <<workouts, workout_sets, templates, template_exercises,
                        current_workout_id>>

----------------------------------------------------------------------------
(* Workout store *)

\* start(notes): the pointer is set before the row is written
start_workout(notes) ==
    LET workout_id == Fresh(workouts) IN
    /\ current_workout_id' = workout_id
    /\ IF Locked
       THEN /\ Leak(NoTxn)
            /\ last' = Call("start_workout", DatabaseLocked, <<>>)
            /\ UNCHANGED workouts
       ELSE /\ workouts' = Append(workouts, [id |-> workout_id, date |-> workout_id,
                                              notes |-> notes, created_at |-> workout_id])
            /\ Closed
            /\ last' = Call("start_workout", "ok", [workout_id |-> workout_id])
    /\ UNCHANGED <<exercises, workout_sets, templates, template_exercises>>

\* isinstance(reps, int) and reps > 0
ValidReps(reps) == reps # NoneNum /\ reps > 0

\* the row log_exercise inserts for the entry at position idx (0-based) of the batch
SetRow(id, target_workout_id, exercise_id, start_set, idx, set_data) ==
    [id |-> id, workout_id |-> target_workout_id, exercise_id |-> exercise_id,
     set_number |-> start_set + idx, reps |-> set_data.reps,
     weight |-> set_data.weight, notes |-> set_data.notes, created_at |-> id]

RECURSIVE InsertSets(_, _, _, _, _, _)
\* the loop of log_exercise from entry idx (0-based) on; rows are the rows
\* inserted so far through this handle.  The result is the way the loop ends
\* and the transaction the handle then holds.
InsertSets(sets_data, idx, target_workout_id, exercise_id, start_set, rows) ==
    IF idx >= Len(sets_data)
    THEN [error |-> "ok", active |-> rows # <<>>, rows |-> rows]
    ELSE LET set_data == sets_data[idx + 1] IN
         IF ~ValidReps(set_data.reps)
         THEN [error |-> InvalidArgument, active |-> rows # <<>>, rows |-> rows]
         ELSE IF rows = <<>> /\ Locked
         THEN [error |-> DatabaseLocked, active |-> FALSE, rows |-> rows]
         ELSE IF WorkoutById(target_workout_id) = <<>>
         THEN [error |-> IntegrityError, active |-> TRUE, rows |-> rows]
         ELSE InsertSets(sets_data, idx + 1, target_workout_id, exercise_id, start_set,
                         Append(rows, SetRow(Fresh(workout_sets \o rows),
                                             target_workout_id, exercise_id,
                                             start_set, idx, set_data)))

\* variant in which the rows of the call replace the rows of the table
CommitReplacing(rows) == workout_sets' = rows

\* the rows of a transaction become rows of the tables
Commit(rows) == workout_sets' = workout_sets \o rows

\* variant that does not look the exercise up before it inserts
LogWithoutExerciseCheck(exercise_id, sets_data, workout_id) ==
    LET target_workout_id == TargetWorkout(workout_id)
        start_set == _get_next_set_number(target_workout_id, exercise_id)
        loop == InsertSets(sets_data, 0, target_workout_id, exercise_id, start_set, <<>>)
    IN
    IF target_workout_id = NoId
    THEN /\ last' = Call("log_exercise", NoActiveWorkout, <<>>)
         /\ UNCHANGED <<tables, current_workout_id, leakedHandles, openTxn>>
    ELSE IF loop.error = "ok"
    THEN /\ Commit(loop.rows)
         /\ Closed
         /\ last' = Call("log_exercise", "ok",
                         [exercise_id |-> exercise_id,
                          exercise_name |-> NoName,
                          sets_logged |-> Len(sets_data)])
         /\ UNCHANGED <<exercises, workouts, templates, template_exercises,
                        current_workout_id>>
    ELSE /\ Leak([NoTxn EXCEPT !.active = loop.active, !.workout_sets = loop.rows])
         /\ last' = Call("log_exercise", loop.error, <<>>)
         /\ UNCHANGED <<tables, current_workout_id>>

\* logSet(exerciseRef, batch, workoutId), guidance not requested
log_exercise(exercise_id, sets_data, workout_id) ==
    LET target_workout_id == TargetWorkout(workout_id)
        exercise == ExerciseById(exercise_id)
        start_set == _get_next_set_number(target_workout_id, exercise_id)
        loop == InsertSets(sets_data, 0, target_workout_id, exercise_id, start_set, <<>>)
    IN
    IF target_workout_id = NoId
    THEN /\ last' = Call("log_exercise", NoActiveWorkout, <<>>)
         /\ UNCHANGED <<tables, current_workout_id, leakedHandles, openTxn>>
    ELSE IF exercise = <<>>
    THEN /\ last' = Call("log_exercise", NotFound, <<>>)
         /\ UNCHANGED <<tables, current_workout_id, leakedHandles, openTxn>>
    ELSE IF loop.error = "ok"
    THEN /\ Commit(loop.rows)
         /\ Closed
         /\ last' = Call("log_exercise", "ok",
                         [exercise_id |-> exercise_id,
                          exercise_name |-> exercise[1].display_name,
                          sets_logged |-> Len(sets_data)])
         /\ UNCHANGED <<exercises, workouts, templates, template_exercises,
                        current_workout_id>>
    ELSE /\ Leak([NoTxn EXCEPT !.active = loop.active, !.workout_sets = loop.rows])
         /\ last' = Call("log_exercise", loop.error, <<>>)
         /\ UNCHANGED <<tables, current_workout_id>>

----------------------------------------------------------------------------
(* Workout summary *)

\* variant that reads the sets of the current workout whatever id it is given
SummaryRowsOfCurrent(workout_id) ==
    SelectSeq(workout_sets,
              LAMBDA r : r.workout_id = current_workout_id
                         /\ ExerciseById(r.exercise_id) # <<>>)

\* the rows of workout_sets of one workout joined with their exercise
\* (JOIN exercises e ON e.id = ws.exercise_id WHERE ws.workout_id = ?)
SummaryRows(workout_id) ==
    SelectSeq(workout_sets,
              LAMBDA r : r.workout_id = workout_id /\ ExerciseById(r.exercise_id) # <<>>)

\* variant that returns the rows newest first
NewestFirst(rows) == [i \in 1..Len(rows) |-> rows[Len(rows) + 1 - i]]

\* ORDER BY ws.created_at, ws.set_number
OrderSummaryRows(rows) ==
    LET by_set == Rows(SortPairs([i \in 1..Len(rows) |-> <<rows[i].set_number, rows[i]>>]))
    IN Rows(SortPairs([i \in 1..Len(by_set) |-> <<by_set[i].created_at, by_set[i]>>]))

SummarySet(r) ==
    [set |-> r.set_number, reps |-> r.reps, weight |-> r.weight, notes |-> r.notes]

RECURSIVE GroupByExercise(_, _)
\* exercises_map: one entry per exercise id in the order of first appearance,
\* each row appended to the entry of its exercise
GroupByExercise(rows, groups) ==
    IF rows = <<>> THEN groups
    ELSE LET r == Head(rows)
             at == {i \in 1..Len(groups) : groups[i].exercise_id = r.exercise_id}
         IN IF at = {}
            THEN GroupByExercise(Tail(rows),
                     Append(groups, [exercise_id |-> r.exercise_id,
                                     name |-> ExerciseById(r.exercise_id)[1].display_name,
                                     sets |-> <<SummarySet(r)>>]))
            ELSE GroupByExercise(Tail(rows),
                     [i \in 1..Len(groups) |->
                        IF i \in at
                        THEN [groups[i] EXCEPT !.sets = Append(@, SummarySet(r))]
                        ELSE groups[i]])

\* the empty dict returned for a workout id that has no row
EmptySummary == [empty |-> TRUE]

_get_workout_summary_sync(workout_id) ==
    LET workout == WorkoutById(workout_id) IN
    IF workout = <<>> THEN EmptySummary
    ELSE [id |-> workout[1].id, date |-> workout[1].date, notes |-> workout[1].notes,
          exercises |-> GroupByExercise(OrderSummaryRows(SummaryRows(workout_id)), <<>>)]

\* summary(workoutId)
get_workout_summary(workout_id) ==
    LET target_workout_id == TargetWorkout(workout_id)
        summary == _get_workout_summary_sync(target_workout_id)
    IN
    /\ last' = IF target_workout_id = NoId
               THEN Call("get_workout_summary", NoWorkoutSpecified, <<>>)
               ELSE IF summary = EmptySummary
               THEN Call("get_workout_summary", NotFound, <<>>)
               ELSE Call("get_workout_summary", "ok", summary)
    /\ UNCHANGED <<tables, current_workout_id, leakedHandles, openTxn>>

\* Python truth of an optional text: None and "" are false
Truthy(text) == text # NoneStr /\ text # ""

\* UPDATE workouts SET notes = ? WHERE id = ?
UpdateNotes(workout_id, notes) ==
    [i \in 1..Len(workouts) |->
        IF workouts[i].id = workout_id THEN [workouts[i] EXCEPT !.notes = notes]
        ELSE workouts[i]]

\* end(finalNotes): the summary is read before the notes are written
end_workout(final_notes) ==
    LET summary == _get_workout_summary_sync(current_workout_id) IN
    IF current_workout_id = NoId
    THEN /\ last' = Call("end_workout", NoActiveWorkout, <<>>)
         /\ UNCHANGED <<tables, current_workout_id, leakedHandles, openTxn>>
    ELSE IF Truthy(final_notes) /\ Locked
    THEN /\ Leak(NoTxn)
         /\ last' = Call("end_workout", DatabaseLocked, <<>>)
         /\ UNCHANGED <<tables, current_workout_id>>
    ELSE /\ workouts' = IF Truthy(final_notes)
                        THEN UpdateNotes(current_workout_id, final_notes)
                        ELSE workouts
         /\ current_workout_id' = NoId
         /\ Closed
         /\ last' = Call("end_workout", "ok", [summary |-> summary])
         /\ UNCHANGED <<exercises, workout_sets, templates, template_exercises>>

----------------------------------------------------------------------------
(* Template store *)

\* exercise.get("target_sets", 3)
DefaultTargetSets == 3

\* _find_or_create_exercise(name, category, conn): the id of the row with the
\* normalized name, among the committed rows and those this handle inserted
\* (pending); the row to insert when there is none
_find_or_create_exercise(name, category, pending) ==
    LET visible == exercises \o pending
        row == ExerciseByName(visible, _normalize_name(name))
    IN IF row # <<>>
       THEN [id |-> row[1].id, pending |-> pending]
       ELSE [id |-> Fresh(visible),
             pending |-> Append(pending, ExerciseRow(Fresh(visible), name, category))]

\* if not ex_name
NoExerciseName(ex_name) == ex_name = NoName \/ ex_name = <<>>

\* the row create_template inserts for the entry at position idx (1-based)
TemplateExerciseRow(id, template_id, exercise_id, idx, exercise) ==
    [id |-> id, template_id |-> template_id, exercise_id |-> exercise_id,
     order_index |-> IF exercise.order = NoneNum THEN idx ELSE exercise.order,
     target_sets |-> IF exercise.target_sets = NoneNum THEN DefaultTargetSets
                     ELSE exercise.target_sets,
     target_reps_min |-> exercise.target_reps_min,
     target_reps_max |-> exercise.target_reps_max]

RECURSIVE InsertTemplateExercises(_, _, _, _, _)
\* the loop of create_template from entry idx (1-based) on, with the
\* transaction txn of the handle and the list registered built so far
InsertTemplateExercises(entries, idx, template_id, txn, registered) ==
    IF idx > Len(entries)
    THEN [error |-> "ok", txn |-> txn, registered |-> registered]
    ELSE LET exercise == entries[idx]
             found == _find_or_create_exercise(exercise.name, exercise.category,
                                               txn.exercises)
             row == TemplateExerciseRow(
                        Fresh(template_exercises \o txn.template_exercises),
                        template_id, found.id, idx, exercise)
         IN IF NoExerciseName(exercise.name)
            THEN [error |-> InvalidArgument, txn |-> txn, registered |-> registered]
            ELSE InsertTemplateExercises(entries, idx + 1, template_id,
                     [txn EXCEPT !.exercises = found.pending,
                                 !.template_exercises = Append(@, row)],
                     Append(registered, [name |-> exercise.name,
                                         exercise_id |-> found.id]))

\* variant in which the rows written before the failure are committed
CreateKeepingRows(name, entries) ==
    LET template_id == Fresh(templates)
        begun == [NoTxn EXCEPT !.active = TRUE,
                               !.templates = <<[id |-> template_id, name |-> name,
                                                active |-> TRUE,
                                                created_at |-> template_id]>>]
        loop == InsertTemplateExercises(entries, 1, template_id, begun, <<>>)
    IN
    IF entries = <<>>
    THEN /\ last' = Call("create_template", InvalidArgument, <<>>)
         /\ UNCHANGED <<tables, current_workout_id, leakedHandles, openTxn>>
    ELSE IF Locked
    THEN /\ Leak(NoTxn)
         /\ last' = Call("create_template", DatabaseLocked, <<>>)
         /\ UNCHANGED <<tables, current_workout_id>>
    ELSE /\ templates' = templates \o loop.txn.templates
         /\ exercises' = exercises \o loop.txn.exercises
         /\ template_exercises' = template_exercises \o loop.txn.template_exercises
         /\ Closed
         /\ last' = IF loop.error # "ok"
                    THEN Call("create_template", loop.error, <<>>)
                    ELSE Call("create_template", "ok",
                              [template_id |-> template_id, name |-> name,
                               exercises |-> loop.registered])
         /\ UNCHANGED <<workouts, workout_sets, current_workout_id>>

\* create(name, exercises)
create_template(name, entries) ==
    LET template_id == Fresh(templates)
        begun == [NoTxn EXCEPT !.active = TRUE,
                               !.templates = <<[id |-> template_id, name |-> name,
                                                active |-> TRUE,
                                                created_at |-> template_id]>>]
        loop == InsertTemplateExercises(entries, 1, template_id, begun, <<>>)
    IN
    IF entries = <<>>
    THEN /\ last' = Call("create_template", InvalidArgument, <<>>)
         /\ UNCHANGED <<tables, current_workout_id, leakedHandles, openTxn>>
    ELSE IF Locked
    THEN /\ Leak(NoTxn)
         /\ last' = Call("create_template", DatabaseLocked, <<>>)
         /\ UNCHANGED <<tables, current_workout_id>>
    ELSE IF loop.error # "ok"
    THEN /\ Leak(loop.txn)
         /\ last' = Call("create_template", loop.error, <<>>)
         /\ UNCHANGED <<tables, current_workout_id>>
    ELSE /\ templates' = templates \o loop.txn.templates
         /\ exercises' = exercises \o loop.txn.exercises
         /\ template_exercises' = template_exercises \o loop.txn.template_exercises
         /\ Closed
         /\ last' = Call("create_template", "ok",
                         [template_id |-> template_id, name |-> name,
                          exercises |-> loop.registered])
         /\ UNCHANGED <<workouts, workout_sets, current_workout_id>>

\* SELECT ... FROM template_exercises te JOIN exercises e ... WHERE te.template_id = ?
\* ORDER BY te.order_index; rows of equal order_index stay in insertion order
_get_template_exercises(template_id) ==
    LET rows == SelectSeq(template_exercises,
                    LAMBDA te : te.template_id = template_id
                                /\ ExerciseById(te.exercise_id) # <<>>)
        sorted == Rows(SortPairs([i \in 1..Len(rows) |-> <<rows[i].order_index, rows[i]>>]))
    IN [i \in 1..Len(sorted) |->
          [exercise_id |-> sorted[i].exercise_id,
           name |-> ExerciseById(sorted[i].exercise_id)[1].display_name,
           order |-> sorted[i].order_index,
           target_sets |-> sorted[i].target_sets,
           target_reps_min |-> sorted[i].target_reps_min,
           target_reps_max |-> sorted[i].target_reps_max]]

----------------------------------------------------------------------------
(* Progress calculator *)

\* variant that counts the sets of the exercise in every workout
SetsDoneAnywhere(workout_id, exercise_id) ==
    Len(SelectSeq(workout_sets, LAMBDA r : r.exercise_id = exercise_id))

\* SELECT exercise_id, COUNT(id) ... WHERE workout_id = ? GROUP BY exercise_id,
\* read with sets_done_map.get(exercise_id, 0)
SetsDone(workout_id, exercise_id) == Len(SetsOf(workout_id, exercise_id))

ProgressEntry(ex, workout_id) ==
    LET sets_done == SetsDone(workout_id, ex.exercise_id) IN
    [exercise_id |-> ex.exercise_id, name |-> ex.name, order |-> ex.order,
     target_sets |-> ex.target_sets, target_reps_min |-> ex.target_reps_min,
     target_reps_max |-> ex.target_reps_max, sets_done |-> sets_done,
     sets_remaining |-> Max(ex.target_sets - sets_done, 0)]

\* the value None where a progress entry is expected
NoEntry == [none |-> TRUE]

_compute_template_progress(template_id, workout_id) ==
    LET template_exercises_ == _get_template_exercises(template_id)
        entries == [i \in 1..Len(template_exercises_) |->
                       ProgressEntry(template_exercises_[i], workout_id)]
        completed == SelectSeq(entries, LAMBDA e : e.sets_remaining = 0)
        remaining == SelectSeq(entries, LAMBDA e : e.sets_remaining # 0)
        remaining_sorted ==
            Rows(SortPairs([i \in 1..Len(remaining) |-> <<remaining[i].order, remaining[i]>>]))
    IN [completed |-> completed,
        remaining |-> remaining_sorted,
        next |-> IF remaining_sorted # <<>> THEN remaining_sorted[1] ELSE NoEntry]

\* variant that makes the workout it reports on the current one
ProgressSelectingWorkout(template_id, workout_id) ==
    LET target_workout_id == TargetWorkout(workout_id)
    IN
    /\ last' = IF target_workout_id = NoId
               THEN Call("get_template_progress", NoWorkoutSpecified, <<>>)
               ELSE Call("get_template_progress", "ok",
                         [workout_id |-> target_workout_id, template_id |-> template_id,
                          progress |-> _compute_template_progress(template_id,
                                                                  target_workout_id)])
    /\ current_workout_id' = target_workout_id
    /\ UNCHANGED <<tables, leakedHandles, openTxn>>

\* getTemplateProgress(templateId, workoutId)
get_template_progress(template_id, workout_id) ==
    LET target_workout_id == TargetWorkout(workout_id)
    IN
    /\ last' = IF target_workout_id = NoId
               THEN Call("get_template_progress", NoWorkoutSpecified, <<>>)
               ELSE Call("get_template_progress", "ok",
                         [workout_id |-> target_workout_id, template_id |-> template_id,
                          progress |-> _compute_template_progress(template_id,
                                                                  target_workout_id)])
    /\ UNCHANGED <<tables, current_workout_id, leakedHandles, openTxn>>

----------------------------------------------------------------------------
(* Template inference engine *)

\* SELECT DISTINCT exercise_id FROM workout_sets WHERE workout_id = ?
_get_logged_exercise_ids(workout_id) ==
    {workout_sets[i].exercise_id :
        i \in {j \in 1..Len(workout_sets) : workout_sets[j].workout_id = workout_id}}

\* the rows of templates t JOIN template_exercises te ON te.template_id = t.id
\* WHERE t.active = 1 AND te.exercise_id = ?, each as <<t.id, te.id>>
CandidateRows(exercise_id) ==
    LET joined == {p \in (1..Len(templates)) \X (1..Len(template_exercises)) :
                      /\ template_exercises[p[2]].template_id = templates[p[1]].id
                      /\ templates[p[1]].active
                      /\ template_exercises[p[2]].exercise_id = exercise_id}
    IN {<<templates[p[1]].id, template_exercises[p[2]].id>> : p \in joined}

\* the orders in which the rows of a query without ORDER BY can come back
ScanOrders(S) ==
    {scan \in [1..Cardinality(S) -> S] : \A i, j \in 1..Cardinality(S) :
        i # j => scan[i] # scan[j]}

\* variant that keeps every row of the join
EveryRow(ids) == ids

RECURSIVE Distinct(_)
\* SELECT DISTINCT: the first occurrence of every value is kept
Distinct(ids) ==
    IF ids = <<>> THEN <<>>
    ELSE LET init == Distinct(SubSeq(ids, 1, Len(ids) - 1))
             x == ids[Len(ids)]
         IN IF x \in Range(init) THEN init ELSE Append(init, x)

TemplateById(id) == SelectSeq(templates, LAMBDA t : t.id = id)

\* len(templ_ids.intersection(logged))
Overlap(template_id, logged) ==
    LET templ_ex == _get_template_exercises(template_id) IN
    Cardinality({templ_ex[i].exercise_id : i \in 1..Len(templ_ex)} \cap logged)

\* variant that takes the first candidate whatever the scores are
FirstScanned(candidates, i, logged, best_score, chosen) == candidates[1]

RECURSIVE TiesToLater(_, _, _, _, _)
\* variant in which a score equal to best_score changes chosen too
TiesToLater(candidates, i, logged, best_score, chosen) ==
    IF i > Len(candidates) THEN chosen
    ELSE LET score == Overlap(candidates[i], logged) IN
         IF score >= best_score
         THEN TiesToLater(candidates, i + 1, logged, score, candidates[i])
         ELSE TiesToLater(candidates, i + 1, logged, best_score, chosen)

RECURSIVE BestOverlap(_, _, _, _, _)
\* the loop over the candidates from position i on: chosen changes only when a
\* score is greater than best_score
BestOverlap(candidates, i, logged, best_score, chosen) ==
    IF i > Len(candidates) THEN chosen
    ELSE LET score == Overlap(candidates[i], logged) IN
         IF score > best_score
         THEN BestOverlap(candidates, i + 1, logged, score, candidates[i])
         ELSE BestOverlap(candidates, i + 1, logged, best_score, chosen)

RECURSIVE LatestWorkout(_)
\* ORDER BY w.date DESC LIMIT 1 over a non-empty sequence of workouts
LatestWorkout(rows) ==
    IF Len(rows) = 1 THEN rows[1]
    ELSE LET rest == LatestWorkout(Tail(rows)) IN
         IF Head(rows).date >= rest.date THEN Head(rows) ELSE rest

\* the sets of one exercise in one workout, ORDER BY set_number
OrderedSets(workout_id, exercise_id) ==
    LET rows == SetsOf(workout_id, exercise_id)
        sorted == Rows(SortPairs([i \in 1..Len(rows) |-> <<rows[i].set_number, rows[i]>>]))
    IN [i \in 1..Len(sorted) |-> SummarySet(sorted[i])]

_get_last_exercise_sets(exercise_id, exclude_workout_id) ==
    LET with_exercise ==
            SelectSeq(workouts, LAMBDA w :
                /\ SetsOf(w.id, exercise_id) # <<>>
                /\ (exclude_workout_id = NoId \/ w.id # exclude_workout_id))
    IN IF with_exercise = <<>>
       THEN [workout_id |-> NoId, date |-> NoneNum, sets |-> <<>>]
       ELSE LET last_workout == LatestWorkout(with_exercise) IN
            [workout_id |-> last_workout.id, date |-> last_workout.date,
             sets |-> OrderedSets(last_workout.id, exercise_id)]

\* the value None where a progress object is expected
NoProgress == [none |-> TRUE]

\* the object infer_template returns for the candidates, in the order the
\* store returned them
InferResult(exercise_id, target_workout_id, candidates) ==
    LET chosen == IF Len(candidates) = 1 THEN candidates[1]
                  ELSE BestOverlap(candidates, 1,
                           IF target_workout_id # NoId
                           THEN _get_logged_exercise_ids(target_workout_id) ELSE {},
                           0 - 1, candidates[1])
    IN IF candidates = <<>>
       THEN [status |-> "not_found"]
       ELSE [status |-> "success",
             template |-> [id |-> chosen, name |-> TemplateById(chosen)[1].name],
             reason |-> IF Len(candidates) = 1 THEN "single_match" ELSE "best_overlap",
             progress |-> IF target_workout_id # NoId
                          THEN _compute_template_progress(chosen, target_workout_id)
                          ELSE NoProgress,
             last_performance |-> _get_last_exercise_sets(exercise_id, target_workout_id)]

\* variant that makes the workout it looked at the current one
InferAdoptingWorkout(exercise_id, workout_id, scan) ==
    LET target_workout_id == TargetWorkout(workout_id)
        candidates == Distinct([i \in 1..Len(scan) |-> scan[i][1]])
    IN
    /\ last' = CallWith("infer_template", <<exercise_id, workout_id>>, "ok",
                        InferResult(exercise_id, target_workout_id, candidates))
    /\ current_workout_id' = target_workout_id
    /\ UNCHANGED <<tables, leakedHandles, openTxn>>

\* infer(exerciseRef, workoutId); scan is the join of the candidate query in the
\* order the store went through it
infer_template(exercise_id, workout_id, scan) ==
    LET target_workout_id == TargetWorkout(workout_id)
        candidates == Distinct([i \in 1..Len(scan) |-> scan[i][1]])
    IN
    /\ last' = CallWith("infer_template", <<exercise_id, workout_id>>, "ok",
                        InferResult(exercise_id, target_workout_id, candidates))
    /\ UNCHANGED <<tables, current_workout_id, leakedHandles, openTxn>>

-----------------------------------------------------------------------------
(* Set logging with guidance (include_guidance = True) *)

\* the value None where an inference result is expected
NoInference == [none |-> TRUE]

(* The queries that the guidance runs on a handle of its own once the sets are
   committed, written over the rows that table workout_sets holds by then *)

SetsOfIn(sets, workout_id, exercise_id) ==
    SelectSeq(sets, LAMBDA r : r.workout_id = workout_id /\ r.exercise_id = exercise_id)

\* _get_logged_exercise_ids over the rows given
LoggedExerciseIdsIn(sets, workout_id) ==
    {sets[i].exercise_id : i \in {j \in 1..Len(sets) : sets[j].workout_id = workout_id}}

\* variant without max(..., 0): sets beyond the target count as remaining
ProgressEntryUnclamped(sets, ex, workout_id) ==
    LET sets_done == Len(SetsOfIn(sets, workout_id, ex.exercise_id)) IN
    [exercise_id |-> ex.exercise_id, name |-> ex.name, order |-> ex.order,
     target_sets |-> ex.target_sets, target_reps_min |-> ex.target_reps_min,
     target_reps_max |-> ex.target_reps_max, sets_done |-> sets_done,
     sets_remaining |-> ex.target_sets - sets_done]

\* one entry of _compute_template_progress over the rows given
ProgressEntryIn(sets, ex, workout_id) ==
    LET sets_done == Len(SetsOfIn(sets, workout_id, ex.exercise_id)) IN
    [exercise_id |-> ex.exercise_id, name |-> ex.name, order |-> ex.order,
     target_sets |-> ex.target_sets, target_reps_min |-> ex.target_reps_min,
     target_reps_max |-> ex.target_reps_max, sets_done |-> sets_done,
     sets_remaining |-> Max(ex.target_sets - sets_done, 0)]

\* _compute_template_progress over the rows given
ProgressIn(sets, template_id, workout_id) ==
    LET template_exercises_ == _get_template_exercises(template_id)
        entries == [i \in 1..Len(template_exercises_) |->
                       ProgressEntryIn(sets, template_exercises_[i], workout_id)]
        completed == SelectSeq(entries, LAMBDA e : e.sets_remaining = 0)
        remaining == SelectSeq(entries, LAMBDA e : e.sets_remaining # 0)
        remaining_sorted ==
            Rows(SortPairs([i \in 1..Len(remaining) |-> <<remaining[i].order, remaining[i]>>]))
    IN [completed |-> completed,
        remaining |-> remaining_sorted,
        next |-> IF remaining_sorted # <<>> THEN remaining_sorted[1] ELSE NoEntry]

\* _get_last_exercise_sets over the rows given
LastExerciseSetsIn(sets, exercise_id, exclude_workout_id) ==
    LET with_exercise ==
            SelectSeq(workouts, LAMBDA w :
                /\ SetsOfIn(sets, w.id, exercise_id) # <<>>
                /\ (exclude_workout_id = NoId \/ w.id # exclude_workout_id))
    IN IF with_exercise = <<>>
       THEN [workout_id |-> NoId, date |-> NoneNum, sets |-> <<>>]
       ELSE LET last_workout == LatestWorkout(with_exercise)
                rows == SetsOfIn(sets, last_workout.id, exercise_id)
                sorted == Rows(SortPairs([i \in 1..Len(rows) |->
                                             <<rows[i].set_number, rows[i]>>]))
            IN [workout_id |-> last_workout.id, date |-> last_workout.date,
                sets |-> [i \in 1..Len(sorted) |-> SummarySet(sorted[i])]]

\* the object infer_template returns over the rows given; the workout is given,
\* so it is the target
InferResultIn(sets, exercise_id, target_workout_id, candidates) ==
    LET chosen == IF Len(candidates) = 1 THEN candidates[1]
                  ELSE BestOverlap(candidates, 1,
                                   LoggedExerciseIdsIn(sets, target_workout_id),
                                   0 - 1, candidates[1])
    IN IF candidates = <<>>
       THEN [status |-> "not_found"]
       ELSE [status |-> "success",
             template |-> [id |-> chosen, name |-> TemplateById(chosen)[1].name],
             reason |-> IF Len(candidates) = 1 THEN "single_match" ELSE "best_overlap",
             progress |-> ProgressIn(sets, chosen, target_workout_id),
             last_performance |-> LastExerciseSetsIn(sets, exercise_id, target_workout_id)]

\* response["guidance"]: progress against the template given, or else against
\* the one that infer_template chooses
GuidanceIn(sets, exercise_id, target_workout_id, template_id, scan) ==
    LET inferred == InferResultIn(sets, exercise_id, target_workout_id,
                                  Distinct([i \in 1..Len(scan) |-> scan[i][1]]))
        last_perf == LastExerciseSetsIn(sets, exercise_id, target_workout_id)
    IN IF template_id # NoId
       THEN [template_inference |-> NoInference,
             template_id |-> template_id,
             progress |-> ProgressIn(sets, template_id, target_workout_id),
             last_performance |-> last_perf]
       ELSE [template_inference |-> inferred,
             template_id |-> IF inferred.status = "success" THEN inferred.template.id
                             ELSE NoId,
             progress |-> IF inferred.status = "success" THEN inferred.progress
                          ELSE NoProgress,
             last_performance |-> last_perf]

\* variant that reads the store as it was before the sets of the call
GuidanceBeforeCommit(rows, exercise_id, target_workout_id, template_id, scan) ==
    GuidanceIn(workout_sets, exercise_id, target_workout_id, template_id, scan)

\* the guidance is computed after conn.commit(): it reads the rows of the call too
GuidanceAfterCommit(rows, exercise_id, target_workout_id, template_id, scan) ==
    GuidanceIn(workout_sets \o rows, exercise_id, target_workout_id, template_id, scan)

\* logSet(exerciseRef, batch, workoutId, templateId) with guidance requested;
\* scan is the order in which the candidate query of infer_template goes
\* through its join
log_exercise_with_guidance(exercise_id, sets_data, workout_id, template_id, scan) ==
    LET target_workout_id == TargetWorkout(workout_id)
        exercise == ExerciseById(exercise_id)
        start_set == _get_next_set_number(target_workout_id, exercise_id)
        loop == InsertSets(sets_data, 0, target_workout_id, exercise_id, start_set, <<>>)
    IN
    IF target_workout_id = NoId
    THEN /\ last' = Call("log_exercise", NoActiveWorkout, <<>>)
         /\ UNCHANGED <<tables, current_workout_id, leakedHandles, openTxn>>
    ELSE IF exercise = <<>>
    THEN /\ last' = Call("log_exercise", NotFound, <<>>)
         /\ UNCHANGED <<tables, current_workout_id, leakedHandles, openTxn>>
    ELSE IF loop.error = "ok"
    THEN /\ Commit(loop.rows)
         /\ Closed
         /\ UNCHANGED <<exercises, workouts, templates, template_exercises,
                        current_workout_id>>
         /\ last' = CallWith("log_exercise", <<workout_id, template_id>>, "ok",
                             [exercise_id |-> exercise_id,
                              exercise_name |-> exercise[1].display_name,
                              sets_logged |-> Len(sets_data),
                              guidance |-> GuidanceAfterCommit(loop.rows, exercise_id,
                                               target_workout_id, template_id, scan)])
    ELSE /\ Leak([NoTxn EXCEPT !.active = loop.active, !.workout_sets = loop.rows])
         /\ last' = Call("log_exercise", loop.error, <<>>)
         /\ UNCHANGED <<tables, current_workout_id>>

-----------------------------------------------------------------------------
(* Listings: search, history, exerciseHistory, list of templates *)

\* the first n elements of a sequence (LIMIT n)
Limit(rows, n) == SubSeq(rows, 1, IF n < Len(rows) THEN n ELSE Len(rows))

\* ORDER BY date DESC / created_at DESC
NewestRowsFirst(rows, field) ==
    Rows(SortPairs([i \in 1..Len(rows) |-> <<0 - rows[i][field], rows[i]>>]))

\* the place of a character in the byte order of the texts of the store
CharRank(c) == IF c = " " THEN 1 ELSE IF c = "A" THEN 2 ELSE 3

RECURSIVE TextRank(_, _)
\* a number that orders the texts of at most n characters as their bytes do
TextRank(text, n) ==
    IF n = 0 THEN 0
    ELSE IF text = <<>> THEN 0
    ELSE CharRank(Head(text)) * (4 ^ (n - 1)) + TextRank(Tail(text), n - 1)

\* name LIKE '%part%' for a part without wildcard; LIKE takes "A" for "a"
Like(name, part) ==
    \E i \in 0..(Len(name) - Len(part)) :
        LowerCase(SubSeq(name, i + 1, i + Len(part))) = LowerCase(part)

\* search(query, category); query is NoName and category NoneStr when left out.
\* The categories given are in lower case with no blank around them, so
\* category.strip().lower() is the text given.
search_exercises(query, category) ==
    LET found == SelectSeq(exercises, LAMBDA e :
                     /\ (query # NoName /\ query # <<>>)
                            => Like(e.name, _normalize_name(query))
                     /\ Truthy(category) => e.category = category)
        sorted == Rows(SortPairs([i \in 1..Len(found) |->
                     <<TextRank(found[i].display_name, MaxNameLen), found[i]>>]))
    IN
    /\ last' = Call("search_exercises", "ok",
                    [count |-> Len(sorted),
                     exercises |-> [i \in 1..Len(sorted) |->
                                      [id |-> sorted[i].id, name |-> sorted[i].display_name,
                                       category |-> sorted[i].category]]])
    /\ UNCHANGED <<tables, current_workout_id, leakedHandles, openTxn>>

\* list(includeExercises, activeOnly)
list_templates(include_exercises, active_only) ==
    LET rows == NewestRowsFirst(SelectSeq(templates, LAMBDA t : ~active_only \/ t.active),
                                "created_at")
        item(t) == [id |-> t.id, name |-> t.name, active |-> t.active,
                    created_at |-> t.created_at]
        result == [i \in 1..Len(rows) |->
                      IF include_exercises
                      THEN [id |-> rows[i].id, name |-> rows[i].name,
                            active |-> rows[i].active, created_at |-> rows[i].created_at,
                            exercises |-> _get_template_exercises(rows[i].id)]
                      ELSE item(rows[i])]
    IN
    /\ last' = Call("list_templates", "ok", [count |-> Len(result), templates |-> result])
    /\ UNCHANGED <<tables, current_workout_id, leakedHandles, openTxn>>

\* exerciseHistory(exerciseRef, limit)
get_exercise_history(exercise_id, limit) ==
    LET exercise == ExerciseById(exercise_id)
        with_exercise == SelectSeq(workouts, LAMBDA w : SetsOf(w.id, exercise_id) # <<>>)
        latest == Limit(NewestRowsFirst(with_exercise, "date"), limit)
        history == [i \in 1..Len(latest) |->
                       [workout_id |-> latest[i].id, date |-> latest[i].date,
                        sets |-> OrderedSets(latest[i].id, exercise_id)]]
    IN
    /\ last' = IF limit <= 0
               THEN Call("get_exercise_history", InvalidArgument, <<>>)
               ELSE IF exercise = <<>>
               THEN Call("get_exercise_history", NotFound, <<>>)
               ELSE Call("get_exercise_history", "ok",
                         [exercise_id |-> exercise_id,
                          exercise_name |-> exercise[1].display_name,
                          count |-> Len(history), history |-> history])
    /\ UNCHANGED <<tables, current_workout_id, leakedHandles, openTxn>>

\* variant that makes the newest workout it lists the current one
HistoryAdoptingNewest(limit) ==
    LET latest == Limit(NewestRowsFirst(workouts, "date"), limit)
    IN
    /\ last' = IF limit <= 0
               THEN Call("get_history", InvalidArgument, <<>>)
               ELSE Call("get_history", "ok",
                         [count |-> Len(latest),
                          workouts |-> [i \in 1..Len(latest) |->
                                           _get_workout_summary_sync(latest[i].id)]])
    /\ current_workout_id' = IF limit > 0 /\ latest # <<>> THEN latest[1].id
                             ELSE current_workout_id
    /\ UNCHANGED <<tables, leakedHandles, openTxn>>

\* history(limit)
get_history(limit) ==
    LET latest == Limit(NewestRowsFirst(workouts, "date"), limit)
    IN
    /\ last' = IF limit <= 0
               THEN Call("get_history", InvalidArgument, <<>>)
               ELSE Call("get_history", "ok",
                         [count |-> Len(latest),
                          workouts |-> [i \in 1..Len(latest) |->
                                           _get_workout_summary_sync(latest[i].id)]])
    /\ UNCHANGED <<tables, current_workout_id, leakedHandles, openTxn>>

----------------------------------------------------------------------------
(* The runtime finalizes a handle that was left open: the connection is     *)
(* closed and its uncommitted transaction is rolled back.                   *)

Finalize ==
    /\ leakedHandles > 0
    /\ leakedHandles' = leakedHandles - 1
    /\ \/ /\ openTxn.active
          /\ openTxn' = NoTxn
       \/ /\ leakedHandles > (IF openTxn.active THEN 1 ELSE 0)
          /\ UNCHANGED openTxn
    /\ UNCHANGED <<tables, current_workout_id, last>>
    /\ UNCHANGED calls

----------------------------------------------------------------------------
(* Inputs *)

Notes == {NoneStr, "n"}
FinalNotes == {NoneStr, "", "done"}

\* the (name, category) pairs registered in the workout specifications
SampleExercises == {<<<<"A">>, NoneStr>>, <<<<" ", "a">>, "chest">>,
                    <<<<"a", " ", "A">>, NoneStr>>, <<<<" ">>, NoneStr>>}

SetEntries == {[reps |-> 5, weight |-> 100, notes |-> NoneStr],
               [reps |-> 0, weight |-> NoneNum, notes |-> "x"]}

SeqsUpTo(S, n) == UNION {[1..k -> S] : k \in 0..n}

Batches == SeqsUpTo(SetEntries, MaxBatch)

ExerciseIds == {exercises[i].id : i \in 1..Len(exercises)} \cup {UnknownId}

WorkoutIds == {workouts[i].id : i \in 1..Len(workouts)} \cup {UnknownId}

\* a template entry; order and target_sets NoneNum when the caller leaves them out
Entry(name, order, target_sets) ==
    [name |-> name, category |-> NoneStr, order |-> order, target_sets |-> target_sets,
     target_reps_min |-> NoneNum, target_reps_max |-> NoneNum]

\* the exercise lists given to create_template in the guidance specification
TemplateLists ==
    {<<>>,
     <<Entry(<<"A">>, NoneNum, NoneNum)>>,
     <<Entry(<<"a">>, NoneNum, 1), Entry(<<"a", "a">>, NoneNum, 2)>>,
     <<Entry(<<"a", "a">>, 2, NoneNum), Entry(<<" ", "A">>, 1, NoneNum)>>,
     <<Entry(<<"A">>, 1, 1), Entry(<<"a", " ">>, 1, 2)>>}

ValidBatches == {b \in SeqsUpTo({e \in SetEntries : ValidReps(e.reps)}, MaxBatch) : b # <<>>}

TemplateIds == {templates[i].id : i \in 1..Len(templates)} \cup {UnknownId}

\* every name of at most MaxNameLen characters
AllNames == SeqsUpTo(Alphabet, MaxNameLen)

Categories == {NoneStr, "chest"}

CreateExercise ==
    /\ \E x \in SampleExercises : create_exercise(x[1], x[2])
    /\ UNCHANGED calls

\* the names given to register in the registry specification: every name of
\* at most MaxNameLen - 2 characters, and longer spellings of the key "a a"
RegistryNames == SeqsUpTo(Alphabet, MaxNameLen - 2) \cup
                 {<<"a", " ", " ", "A">>, <<"A", " ", "a">>, <<" ", "a", " ", "a">>}

RegisterExercise ==
    /\ Len(exercises) < MaxExercises
    /\ \E name \in RegistryNames, category \in Categories : create_exercise(name, category)
    /\ UNCHANGED calls

CreateTemplate ==
    /\ Len(templates) < MaxTemplates
    /\ \E entries \in TemplateLists : create_template("Push Day", entries)
    /\ UNCHANGED calls

\* the names that the entries of a template are drawn from: spellings of the
\* keys "a", "a a" and "", and an entry without name
TemplateNames == {<<"A">>, <<" ", "a">>, <<"a", " ", " ", "A">>, <<"A", " ", "a">>,
                  <<" ">>, NoName}

CreateTemplateOfNames ==
    /\ Len(templates) < MaxTemplates
    /\ \E names \in SeqsUpTo(TemplateNames, MaxEntries) :
          /\ Len(exercises) + Len(names) <= MaxExercises
          /\ create_template("Push Day",
                 [i \in 1..Len(names) |-> Entry(names[i], NoneNum, NoneNum)])
    /\ UNCHANGED calls

StartWorkout ==
    /\ Len(workouts) < MaxWorkouts
    /\ \E notes \in Notes : start_workout(notes)
    /\ UNCHANGED calls

StartWithoutNotes ==
    /\ Len(workouts) < MaxWorkouts
    /\ start_workout(NoneStr)
    /\ UNCHANGED calls

LogExercise ==
    /\ \E exercise_id \in ExerciseIds, sets_data \in Batches, workout_id \in WorkoutIds \cup {NoId} :
           /\ Len(workout_sets) + Len(sets_data) <= MaxSets
           /\ log_exercise(exercise_id, sets_data, workout_id)
    /\ UNCHANGED calls

LogValidSets ==
    /\ \E exercise_id \in ExerciseIds, sets_data \in ValidBatches :
           /\ Len(workout_sets) + Len(sets_data) <= MaxSets
           /\ log_exercise(exercise_id, sets_data, NoId)
    /\ UNCHANGED calls

LogInvalidSets ==
    /\ \E exercise_id \in ExerciseIds, sets_data \in Batches \ (ValidBatches \cup {<<>>}) :
           /\ Len(workout_sets) + Len(sets_data) <= MaxSets
           /\ log_exercise(exercise_id, sets_data, NoId)
    /\ UNCHANGED calls

GetWorkoutSummary ==
    /\ \E workout_id \in WorkoutIds \cup {NoId} : get_workout_summary(workout_id)
    /\ UNCHANGED calls

EndWorkout ==
    /\ \E final_notes \in FinalNotes : end_workout(final_notes)
    /\ UNCHANGED calls

EndWithoutNotes ==
    /\ end_workout(NoneStr)
    /\ UNCHANGED calls

GetTemplateProgress ==
    /\ \E template_id \in TemplateIds, workout_id \in WorkoutIds \cup {NoId} :
           get_template_progress(template_id, workout_id)
    /\ UNCHANGED calls

InferTemplate ==
    /\ \E exercise_id \in ExerciseIds, workout_id \in WorkoutIds \cup {NoId} :
           \E scan \in ScanOrders(CandidateRows(exercise_id)) :
               infer_template(exercise_id, workout_id, scan)
    /\ UNCHANGED calls

LogWithGuidance ==
    /\ \E exercise_id \in ExerciseIds, sets_data \in ValidBatches,
          template_id \in TemplateIds \cup {NoId} :
           \E scan \in ScanOrders(CandidateRows(exercise_id)) :
               /\ Len(workout_sets) + Len(sets_data) <= MaxSets
               /\ log_exercise_with_guidance(exercise_id, sets_data, NoId, template_id, scan)
    /\ UNCHANGED calls

\* the queries given to search: none, a letter, blanks only
Queries == {NoName, <<"A">>, <<" ">>}

\* the limits given to history and exerciseHistory
Limits == {0, 2}

SearchExercises ==
    /\ \E query \in Queries, category \in Categories : search_exercises(query, category)
    /\ UNCHANGED calls

ListTemplates ==
    /\ \E include_exercises \in BOOLEAN, active_only \in BOOLEAN :
           list_templates(include_exercises, active_only)
    /\ UNCHANGED calls

GetExerciseHistory ==
    /\ \E exercise_id \in ExerciseIds, limit \in Limits :
           get_exercise_history(exercise_id, limit)
    /\ UNCHANGED calls

GetHistory ==
    /\ \E limit \in Limits : get_history(limit)
    /\ UNCHANGED calls

----------------------------------------------------------------------------
(* log_exercise of two engines on one file, step by step.  Each call has a
   handle of its own; SQLite lets any handle read the committed rows, and
   lets one handle at a time hold the write lock, from its first INSERT to
   its commit. *)

\* no engine has a call under way
AllIdle == \A engine \in Engines : calls[engine].pc = "idle"

\* the sets that the call of an engine has still to commit
Pending(engine) ==
    IF calls[engine].pc = "idle" THEN 0 ELSE Len(calls[engine].sets_data)

\* another engine holds the write lock
OtherWrites(engine) ==
    \E other \in Engines \ {engine} : calls[other].pc = "inserted"

\* lines 730-746: the target workout, the handle, the exercise and
\* _get_next_set_number, which reads the committed rows
LogRead(engine) ==
    /\ calls[engine].pc = "idle"
    /\ \E exercise_id \in ExerciseIds \ {UnknownId}, sets_data \in ValidBatches,
          workout_id \in WorkoutIds \ {UnknownId} :
           /\ Len(workout_sets) + Pending(1) + Pending(2) + Len(sets_data) <= MaxSets
           /\ calls' = [calls EXCEPT ![engine] =
                           [pc |-> "read", exercise_id |-> exercise_id,
                            workout_id |-> workout_id, sets_data |-> sets_data,
                            start_set |-> _get_next_set_number(workout_id, exercise_id),
                            rows |-> <<>>]]
    /\ UNCHANGED <<tables, current_workout_id, leakedHandles, openTxn, last>>

\* lines 748-761: the loop of INSERTs, numbered from the start_set that was read
LogInsert(engine) ==
    LET call == calls[engine]
        loop == InsertSets(call.sets_data, 0, call.workout_id, call.exercise_id,
                           call.start_set, <<>>)
    IN
    /\ call.pc = "read"
    /\ ~Locked /\ ~OtherWrites(engine)
    /\ loop.error = "ok"
    /\ calls' = [calls EXCEPT ![engine].pc = "inserted", ![engine].rows = loop.rows]
    /\ UNCHANGED <<tables, current_workout_id, leakedHandles, openTxn, last>>

\* the first INSERT while another handle holds the write lock raises "database
\* is locked" once the busy timeout has passed; the handle stays open
LogBusy(engine) ==
    /\ calls[engine].pc = "read"
    /\ Locked \/ OtherWrites(engine)
    /\ Leak(NoTxn)
    /\ last' = Call("log_exercise", DatabaseLocked, <<>>)
    /\ calls' = [calls EXCEPT ![engine] = NoLog]
    /\ UNCHANGED <<tables, current_workout_id>>

\* lines 763-772 and 795-796: commit, close, answer
LogCommit(engine) ==
    LET call == calls[engine] IN
    /\ call.pc = "inserted"
    /\ Commit(call.rows)
    /\ Closed
    /\ last' = Call("log_exercise", "ok",
                    [exercise_id |-> call.exercise_id,
                     exercise_name |-> ExerciseById(call.exercise_id)[1].display_name,
                     sets_logged |-> Len(call.sets_data)])
    /\ calls' = [calls EXCEPT ![engine] = NoLog]
    /\ UNCHANGED <<exercises, workouts, templates, template_exercises, current_workout_id>>

\* register and start, called while no logSet is under way
SetUpExercise == AllIdle /\ CreateExercise

SetUpWorkout == AllIdle /\ StartWithoutNotes

----------------------------------------------------------------------------
(* Set logging: start, logSet, end, with the registry that logSet reads *)

Next ==
    \/ CreateExercise
    \/ StartWithoutNotes
    \/ LogExercise
    \/ EndWithoutNotes
    \/ Finalize

Spec == Init /\ [][Next]_vars

----------------------------------------------------------------------------
(* Sessions: start and end with notes, logSet, summary *)

NextSession ==
    \/ CreateExercise
    \/ StartWorkout
    \/ LogValidSets
    \/ LogInvalidSets
    \/ GetWorkoutSummary
    \/ EndWorkout
    \/ Finalize

SpecSession == Init /\ [][NextSession]_vars

----------------------------------------------------------------------------
(* Registry: names in many spellings, registered or named in a template *)

NextRegistry ==
    \/ RegisterExercise
    \/ CreateTemplateOfNames
    \/ Finalize

SpecRegistry == Init /\ [][NextRegistry]_vars

----------------------------------------------------------------------------
(* Guidance: templates, workouts and their sets, progress, inference *)

NextGuide ==
    \/ CreateTemplate
    \/ StartWithoutNotes
    \/ LogValidSets
    \/ GetTemplateProgress
    \/ InferTemplate
    \/ EndWithoutNotes

SpecGuide == Init /\ [][NextGuide]_vars

-----------------------------------------------------------------------------
(* Coaching: sets logged with guidance against the templates of the store *)

NextCoach ==
    \/ CreateTemplate
    \/ StartWithoutNotes
    \/ LogWithGuidance

SpecCoach == Init /\ [][NextCoach]_vars

-----------------------------------------------------------------------------
(* Two engines: logSet calls through two handles, their steps interleaved *)

NextPair ==
    \/ SetUpExercise
    \/ SetUpWorkout
    \/ \E engine \in Engines : LogRead(engine)
    \/ \E engine \in Engines : LogInsert(engine)
    \/ \E engine \in Engines : LogBusy(engine)
    \/ \E engine \in Engines : LogCommit(engine)

SpecPair == Init /\ [][NextPair]_vars

-----------------------------------------------------------------------------
(* Every operation of the engine *)

\* the operations that add rows, while the store is small
RegisterFirst == Len(exercises) < MaxToolsExercises /\ CreateExercise

\* the exercise lists given to create_template where every operation runs
FewTemplateLists ==
    {<<>>, <<Entry(<<"a">>, NoneNum, 1), Entry(<<"a", "a">>, NoneNum, 2)>>}

CreateFirstTemplate ==
    /\ Len(templates) < MaxToolsTemplates
    /\ \E entries \in FewTemplateLists : create_template("Push Day", entries)
    /\ UNCHANGED calls

\* the batches of one entry
SingleEntryBatches == {<<entry>> : entry \in SetEntries}

LogFew ==
    /\ Len(workout_sets) < MaxToolsSets
    /\ \E exercise_id \in ExerciseIds, sets_data \in SingleEntryBatches,
          workout_id \in WorkoutIds \cup {NoId} :
           log_exercise(exercise_id, sets_data, workout_id)
    /\ UNCHANGED calls

LogFewWithGuidance ==
    /\ Len(workout_sets) < MaxToolsSets
    /\ \E exercise_id \in ExerciseIds, sets_data \in SingleEntryBatches \cap ValidBatches,
          workout_id \in WorkoutIds \cup {NoId}, template_id \in TemplateIds \cup {NoId} :
           \E scan \in ScanOrders(CandidateRows(exercise_id)) :
               log_exercise_with_guidance(exercise_id, sets_data, workout_id,
                                          template_id, scan)
    /\ UNCHANGED calls

NextTools ==
    \/ RegisterFirst
    \/ SearchExercises
    \/ CreateFirstTemplate
    \/ ListTemplates
    \/ StartWithoutNotes
    \/ LogFew
    \/ LogFewWithGuidance
    \/ GetWorkoutSummary
    \/ GetHistory
    \/ GetExerciseHistory
    \/ InferTemplate
    \/ GetTemplateProgress
    \/ EndWithoutNotes
    \/ Finalize

SpecTools == Init /\ [][NextTools]_vars

----------------------------------------------------------------------------
(* Claims about set logging, checked under Spec *)

\* the set numbers stored for one (workout, exercise) pair
SetNumbers(workout_id, exercise_id) ==
    {r.set_number : r \in Range(SetsOf(workout_id, exercise_id))}

C1_Numbered ==
    \A r \in Range(workout_sets) :
        SetNumbers(r.workout_id, r.exercise_id)
            = 1..Len(SetsOf(r.workout_id, r.exercise_id))

\* a step that writes sets appends, for one pair that had N sets, the rows
\* numbered N+1..N+k in this order, k being the length of the logged batch
C1_BatchAppends ==
    workout_sets' # workout_sets =>
        LET k == Len(workout_sets') - Len(workout_sets)
            new == [i \in 1..k |-> workout_sets'[Len(workout_sets) + i]]
            N == Len(SetsOf(new[1].workout_id, new[1].exercise_id))
        IN /\ k > 0
           /\ SubSeq(workout_sets', 1, Len(workout_sets)) = workout_sets
           /\ last'.op = "log_exercise" /\ last'.error = "ok"
           /\ last'.value.sets_logged = k
           /\ \A i \in 1..k :
                 /\ new[i].workout_id = new[1].workout_id
                 /\ new[i].exercise_id = new[1].exercise_id
                 /\ new[i].set_number = N + i

\* C1: after any sequence of start, end and successful or failed logSet calls,
\* the set numbers stored for every (workout, exercise) pair are exactly 1..N,
\* N the number of sets stored for the pair, without gap or duplicate; and a
\* call that logs a batch of k sets adds the k consecutive numbers N+1..N+k.
C1_SetNumbersGapless == []C1_Numbered /\ [][C1_BatchAppends]_vars

\* a pair that had one set got two more from one call
C1_Witness ==
    /\ last.op = "log_exercise" /\ last.error = "ok" /\ last.value.sets_logged = 2
    /\ \E r \in Range(workout_sets) :
          /\ r.exercise_id = last.value.exercise_id
          /\ SetNumbers(r.workout_id, r.exercise_id) = 1..3
          /\ workout_sets[Len(workout_sets)].workout_id = r.workout_id

HasInvalidEntry(sets_data) == \E i \in 1..Len(sets_data) : ~ValidReps(sets_data[i].reps)

\* C2: a logSet call whose batch holds an entry with reps that is not a
\* positive integer fails with InvalidArgument and leaves no row of that call in
\* the store, the valid entries before the invalid one included; the rows of
\* earlier calls are unchanged.  (Stated for calls whose exercise and target
\* workout exist.)
C2_InvalidBatchRejected ==
    [][\A exercise_id \in ExerciseIds, sets_data \in Batches,
          workout_id \in WorkoutIds \cup {NoId} :
            (/\ HasInvalidEntry(sets_data)
             /\ ExerciseById(exercise_id) # <<>>
             /\ WorkoutById(TargetWorkout(workout_id)) # <<>>
             /\ log_exercise(exercise_id, sets_data, workout_id))
            => (last'.error = InvalidArgument /\ workout_sets' = workout_sets)]_vars

\* C6: logSet with a workout id that no row of the store has, while no workout
\* is current, fails with NoActiveWorkout and writes no set.  (Stated for calls
\* whose exercise exists.)
C6_UnknownWorkoutRejected ==
    [][\A exercise_id \in ExerciseIds, sets_data \in Batches,
          workout_id \in WorkoutIds :
            (/\ WorkoutById(workout_id) = <<>>
             /\ current_workout_id = NoId
             /\ ExerciseById(exercise_id) # <<>>
             /\ log_exercise(exercise_id, sets_data, workout_id))
            => (last'.error = NoActiveWorkout /\ workout_sets' = workout_sets)]_vars

\* the rows a step appended to workout_sets, and the batch that they record
NewSets == [i \in 1..(Len(workout_sets') - Len(workout_sets)) |->
               workout_sets'[Len(workout_sets) + i]]

BatchOf(rows) ==
    [i \in 1..Len(rows) |->
        [reps |-> rows[i].reps, weight |-> rows[i].weight, notes |-> rows[i].notes]]

\* a step that writes sets is a logSet call for the exercise and the batch of
\* the new rows; whatever workoutId it was called with, the rows are in the
\* workout named by workoutId, or in the current workout when there is none
C7_WritesToTarget ==
    workout_sets' # workout_sets =>
        /\ \E workout_id \in WorkoutIds \cup {NoId} :
              log_exercise(NewSets[1].exercise_id, BatchOf(NewSets), workout_id)
        /\ \A workout_id \in WorkoutIds \cup {NoId} :
              log_exercise(NewSets[1].exercise_id, BatchOf(NewSets), workout_id) =>
                  \A i \in 1..Len(NewSets) :
                      NewSets[i].workout_id = (IF workout_id # NoId THEN workout_id
                                               ELSE current_workout_id)

\* without workoutId and without current workout every logSet call fails with
\* NoActiveWorkout and leaves the store as it was
C7_NoTarget ==
    (current_workout_id = NoId /\ last'.op = "log_exercise") =>
        \A exercise_id \in ExerciseIds, sets_data \in Batches :
            log_exercise(exercise_id, sets_data, NoId) =>
                (last'.error = NoActiveWorkout /\ tables' = tables)

\* C7: logSet writes to the workout named by workoutId when one is supplied,
\* also when another workout is current, and to the current workout otherwise;
\* without workoutId and without current workout it fails with NoActiveWorkout
\* and the store is unchanged.
C7_TargetWorkout == [][C7_WritesToTarget]_vars /\ [][C7_NoTarget]_vars

\* a set was written to a workout that is not the current one
C7_Witness ==
    /\ last.op = "log_exercise" /\ last.error = "ok" /\ last.value.sets_logged > 0
    /\ current_workout_id # NoId
    /\ WorkoutById(current_workout_id) # <<>>
    /\ workout_sets # <<>>
    /\ workout_sets[Len(workout_sets)].workout_id # current_workout_id

-----------------------------------------------------------------------------
(* Claims about the exercise registry, checked under SpecRegistry *)

\* the positions of a name that its key keeps: the characters that are not
\* spaces, and a space that follows such a character and has one after it
C3_Kept(name) ==
    {i \in 1..Len(name) :
        \/ name[i] # " "
        \/ /\ i > 1 /\ name[i - 1] # " "
           /\ \E j \in (i + 1)..Len(name) : name[j] # " "}

\* the key of a name: trimmed, lower-cased, whitespace runs collapsed
C3_Key(name) ==
    LET at == SelectSeq([i \in 1..Len(name) |-> i], LAMBDA i : i \in C3_Kept(name))
    IN [k \in 1..Len(at) |-> IF name[at[k]] = "A" THEN "a" ELSE name[at[k]]]

\* the registry's normalizer gives every name of at most MaxNameLen characters
\* its key
C3_NormalizedIsKey == \A name \in AllNames : _normalize_name(name) = C3_Key(name)

C3_OneRowPerKey ==
    \A i, j \in 1..Len(exercises) :
        i # j => /\ exercises[i].id # exercises[j].id
                 /\ C3_Key(exercises[i].display_name) # C3_Key(exercises[j].display_name)

\* the id that template creation returns for an entry is that of the row of the
\* entry's key
C3_TemplateResolves ==
    (last.op = "create_template" /\ last.error = "ok") =>
        \A k \in 1..Len(last.value.exercises) :
            \E i \in 1..Len(exercises) :
                /\ exercises[i].id = last.value.exercises[k].exercise_id
                /\ C3_Key(exercises[i].display_name) = C3_Key(last.value.exercises[k].name)

\* the id that register returns for a name is that of the row of the name's key
C3_RegisterResolves ==
    (last.op = "create_exercise" /\ last.error = "ok") =>
        \E i \in 1..Len(exercises) :
            /\ exercises[i].id = last.value.id
            /\ C3_Key(exercises[i].display_name) = C3_Key(last.args[1])

\* no step removes or alters a row of the registry
C3_RowsKept ==
    /\ Len(exercises') >= Len(exercises)
    /\ \A i \in 1..Len(exercises) : exercises'[i] = exercises[i]

\* C3: names that normalize to the same key (trim, lower-case, collapse
\* whitespace runs) resolve to the same exercise id, through register and
\* through template creation, in any order and any number of times, and the
\* registry holds exactly one row for the key: at every moment the registry has
\* at most one row per key, a resolution returns the id of the row of the
\* name's key, and that row stays as it is ever after.
C3_SameKeySameId ==
    /\ [](C3_NormalizedIsKey /\ C3_OneRowPerKey /\ C3_RegisterResolves
          /\ C3_TemplateResolves)
    /\ [][C3_RowsKept]_vars

\* a template entry spelled with an upper-case letter and a run of two spaces
\* resolved to the one row that an earlier call had made under another spelling
C3_Witness ==
    /\ last.op = "create_template" /\ last.error = "ok"
    /\ Len(exercises) = 1
    /\ \E k \in 1..Len(last.value.exercises) :
          /\ last.value.exercises[k].name = <<"a", " ", " ", "A">>
          /\ last.value.exercises[k].exercise_id = exercises[1].id
          /\ exercises[1].display_name # last.value.exercises[k].name
          /\ exercises[1].name = <<"a", " ", "a">>

-----------------------------------------------------------------------------
(* Claims about ending a workout, checked under SpecSession *)

\* C4: when end is called with finalNotes provided on a current workout, the
\* summary that end returns has its notes field equal to finalNotes, whatever
\* notes the workout had before.
C4_ReturnedNotes ==
    [][\A final_notes \in FinalNotes \ {NoneStr} :
          (/\ WorkoutById(current_workout_id) # <<>>
           /\ end_workout(final_notes)
           /\ last'.error = "ok")
          => last'.value.summary.notes = final_notes]_vars

\* end has just returned the summary of a workout of the store
EndedWorkout ==
    /\ last.op = "end_workout" /\ last.error = "ok"
    /\ last.value.summary # EmptySummary

\* summary, called with the id of the workout that end has just ended, succeeds
\* and returns the exercise groups and the sets that end returned
C5_SameSummary ==
    (EndedWorkout /\ get_workout_summary(last.value.summary.id)) =>
        /\ last'.error = "ok"
        /\ last'.value.id = last.value.summary.id
        /\ last'.value.exercises = last.value.summary.exercises

\* end removes and alters no set
C5_EndKeepsSets ==
    (\E final_notes \in FinalNotes : end_workout(final_notes)) =>
        workout_sets' = workout_sets

\* C5: after end, summary called with the ended workout's id succeeds and
\* returns the same exercise groups and the same sets (set number, reps, weight,
\* notes) as the summary end returned; ending a workout removes or alters none
\* of its sets.  (The ended workout is one that the store holds.)
C5_SummaryAfterEnd == [][C5_SameSummary]_vars /\ [][C5_EndKeepsSets]_vars

\* summary has returned the sets of a workout that was ended: no workout is
\* current, and sets are only logged to the current workout
C5_Witness ==
    /\ last.op = "get_workout_summary" /\ last.error = "ok"
    /\ current_workout_id = NoId
    /\ last.value.exercises # <<>>
    /\ Len(last.value.exercises[1].sets) >= 2

-----------------------------------------------------------------------------
(* Claims about template guidance, checked under SpecGuide *)

\* the exercises that the entries of a template list
ExerciseSet(template_id) ==
    {template_exercises[j].exercise_id :
        j \in {k \in 1..Len(template_exercises) :
                  template_exercises[k].template_id = template_id}}

\* the active templates that contain an exercise, each counted once
ActiveTemplatesWith(exercise_id) ==
    {templates[i].id :
        i \in {k \in 1..Len(templates) :
                  templates[k].active /\ exercise_id \in ExerciseSet(templates[k].id)}}

\* the exercises that have a set in a workout
LoggedIn(workout_id) ==
    {workout_sets[i].exercise_id :
        i \in {k \in 1..Len(workout_sets) : workout_sets[k].workout_id = workout_id}}

\* infer has just answered for the exercise InferredExercise and the workout
\* InferredTarget (NoId when it was given none and none was current)
Inferred == last.op = "infer_template" /\ last.error = "ok"

InferredExercise == last.args[1]

InferredTarget == IF last.args[2] # NoId THEN last.args[2] ELSE current_workout_id

\* C8: when exactly one active template contains the given exercise, counted
\* once even if it lists the exercise in several entries, infer returns that
\* template with reason single_match, in every workout state, with no workout
\* at all included.
C8_SingleMatch ==
    (Inferred /\ Cardinality(ActiveTemplatesWith(InferredExercise)) = 1) =>
        /\ last.value.status = "success"
        /\ last.value.template.id \in ActiveTemplatesWith(InferredExercise)
        /\ last.value.reason = "single_match"

\* infer has answered single_match with a template that lists its one exercise
\* in two entries, while the store holds no workout
C8_Witness ==
    /\ Inferred /\ last.value.status = "success"
    /\ last.value.reason = "single_match"
    /\ workouts = <<>> /\ current_workout_id = NoId
    /\ Cardinality(ExerciseSet(last.value.template.id)) = 1
    /\ Len(SelectSeq(template_exercises,
                     LAMBDA te : te.template_id = last.value.template.id)) = 2

\* C9 as stated: when several active templates contain the given exercise and
\* the exercises logged in the target workout are the full exercise set of one
\* candidate and only a proper part of the exercise set of another, infer
\* chooses the fully-matching candidate, whatever the scan order.
C9_FullMatchChosen ==
    Inferred =>
        \A full \in ActiveTemplatesWith(InferredExercise) :
            (/\ InferredTarget # NoId
             /\ ExerciseSet(full) = LoggedIn(InferredTarget)
             /\ \E other \in ActiveTemplatesWith(InferredExercise) \ {full} :
                   /\ LoggedIn(InferredTarget) \subseteq ExerciseSet(other)
                   /\ LoggedIn(InferredTarget) # ExerciseSet(other))
            => last.value.template.id = full

\* C9: when several active templates contain the given exercise and the
\* exercises logged in the target workout are the full exercise set of one
\* candidate, while every other candidate contains only a proper part of the
\* logged exercises, infer chooses the fully-matching candidate with reason
\* best_overlap, whatever order the candidates are scanned in.
C9_FullMatchBeatsPartial ==
    Inferred =>
        \A full \in ActiveTemplatesWith(InferredExercise) :
            (/\ InferredTarget # NoId
             /\ ActiveTemplatesWith(InferredExercise) # {full}
             /\ ExerciseSet(full) = LoggedIn(InferredTarget)
             /\ \A other \in ActiveTemplatesWith(InferredExercise) \ {full} :
                   ExerciseSet(other) \cap LoggedIn(InferredTarget) # LoggedIn(InferredTarget))
            => /\ last.value.template.id = full
               /\ last.value.reason = "best_overlap"

\* infer has chosen by overlap the template, the second that was created, whose
\* two exercises are those logged in the current workout, over a template that
\* lists one of them
C9_Witness ==
    /\ Inferred /\ last.value.status = "success"
    /\ last.value.reason = "best_overlap"
    /\ current_workout_id # NoId /\ last.args[2] = NoId
    /\ Len(templates) = 2 /\ last.value.template.id = templates[2].id
    /\ ExerciseSet(templates[2].id) = LoggedIn(current_workout_id)
    /\ Cardinality(LoggedIn(current_workout_id)) = 2
    /\ Cardinality(ExerciseSet(templates[1].id)) = 1
    /\ ExerciseSet(templates[1].id) \subseteq LoggedIn(current_workout_id)

\* getTemplateProgress has just answered for ProgressTemplate and ProgressWorkout
Progressed == last.op = "get_template_progress" /\ last.error = "ok"

\* the entries of the template that the progress is about
ProgressTemplateRows ==
    SelectSeq(template_exercises, LAMBDA te : te.template_id = last.value.template_id)

\* the number of sets logged for an exercise in the workout that the progress
\* is about
ProgressSetsLogged(exercise_id) ==
    Cardinality({i \in 1..Len(workout_sets) :
                    /\ workout_sets[i].workout_id = last.value.workout_id
                    /\ workout_sets[i].exercise_id = exercise_id})

\* the positions of the entries of a list that stand for a template entry
EntriesFor(list, te) ==
    {i \in 1..Len(list) : /\ list[i].exercise_id = te.exercise_id
                          /\ list[i].order = te.order_index
                          /\ list[i].target_sets = te.target_sets}

\* every template exercise is in completed exactly when its sets logged reach
\* its target, and in remaining otherwise, with setsRemaining = target - done
C10_Classified ==
    LET progress == last.value.progress IN
    /\ Len(progress.completed) + Len(progress.remaining) = Len(ProgressTemplateRows)
    /\ \A k \in 1..Len(ProgressTemplateRows) :
          LET te == ProgressTemplateRows[k] IN
          IF ProgressSetsLogged(te.exercise_id) >= te.target_sets
          THEN /\ EntriesFor(progress.completed, te) # {}
               /\ EntriesFor(progress.remaining, te) = {}
          ELSE /\ EntriesFor(progress.completed, te) = {}
               /\ \E i \in EntriesFor(progress.remaining, te) :
                     progress.remaining[i].sets_remaining =
                         te.target_sets - ProgressSetsLogged(te.exercise_id)

\* remaining is in ascending order index, and next is its entry of smallest
\* order index, or null when remaining is empty
C10_NextIsFirst ==
    LET progress == last.value.progress IN
    /\ \A i, j \in 1..Len(progress.remaining) :
          i < j => progress.remaining[i].order <= progress.remaining[j].order
    /\ IF progress.remaining = <<>> THEN progress.next = NoEntry
       ELSE /\ progress.next \in Range(progress.remaining)
            /\ \A i \in 1..Len(progress.remaining) :
                  progress.next.order <= progress.remaining[i].order

\* C10: computeProgress(template, workout) puts a template exercise in
\* completed exactly when the number of sets logged for it in that workout is
\* at least its target set count, and in remaining otherwise with setsRemaining
\* = target - done; remaining is in ascending order index and next is the
\* remaining entry with the smallest order index, or null when remaining is
\* empty.
C10_Progress == Progressed => (C10_Classified /\ C10_NextIsFirst)

\* after 3 sets of the first of two 3-set exercises the first is completed and
\* the second is next
C10_Witness ==
    /\ Progressed
    /\ Len(last.value.progress.completed) = 1
    /\ last.value.progress.completed[1].target_sets = 3
    /\ last.value.progress.completed[1].sets_done = 3
    /\ Len(last.value.progress.remaining) = 1
    /\ last.value.progress.next.target_sets = 3
    /\ last.value.progress.next.sets_remaining = 3
    /\ last.value.progress.next.order > last.value.progress.completed[1].order

\* a getTemplateProgress call writes to no table and leaves the pointer and the
\* handles as they were
C11_NoSideEffect ==
    last'.op = "get_template_progress" =>
        /\ tables' = tables
        /\ current_workout_id' = current_workout_id
        /\ UNCHANGED <<leakedHandles, openTxn>>

\* the call repeated for the same template and workout right after an answer
\* gives the same answer
C11_SameAnswer ==
    (Progressed /\ get_template_progress(last.value.template_id, last.value.workout_id))
        => last' = last

\* C11: computeProgress has no side effect and is idempotent: getTemplateProgress
\* called twice with the same template and workout and no write in between
\* returns identical output, and leaves every table and the current-workout
\* pointer unchanged.
C11_ProgressIdempotent == [][C11_NoSideEffect]_vars /\ [][C11_SameAnswer]_vars

\* progress was reported, with a completed and a remaining entry, on a workout
\* that is not the current one
C11_Witness ==
    /\ Progressed
    /\ current_workout_id # NoId
    /\ last.value.workout_id # current_workout_id
    /\ last.value.progress.completed # <<>>
    /\ last.value.progress.remaining # <<>>

\* C12: every result of infer carries lastPerformance (the last-performance
\* data or the no-prior-data marker), for every status it can return, the
\* status not_found of an exercise that no active template contains included.
C12_LastPerformanceAttached ==
    Inferred => "last_performance" \in DOMAIN last.value

\* C13: infer mutates nothing: for every input, the exercise registry, the
\* templates and their exercises, the workouts, the sets and the
\* current-workout pointer are the same after the call as before it.
C13_InferReadsOnly ==
    [][last'.op = "infer_template" =>
          /\ exercises' = exercises
          /\ templates' = templates /\ template_exercises' = template_exercises
          /\ workouts' = workouts /\ workout_sets' = workout_sets
          /\ current_workout_id' = current_workout_id]_vars

\* infer has answered, for a workout given by id while another is current, in a
\* store that holds exercises, templates, workouts and sets
C13_Witness ==
    /\ Inferred
    /\ last.args[2] # NoId /\ current_workout_id # NoId
    /\ last.args[2] # current_workout_id
    /\ exercises # <<>> /\ templates # <<>> /\ workout_sets # <<>>

-----------------------------------------------------------------------------
(* Claims about the workout summary, checked under SpecSession *)

\* summary has just answered for the workout last.value.id
Summarized == last.op = "get_workout_summary" /\ last.error = "ok"

\* the sets stored for an exercise in the workout of the summary, as the
\* summary shows a set
C14_StoredSets(exercise_id) ==
    {[set |-> workout_sets[i].set_number, reps |-> workout_sets[i].reps,
      weight |-> workout_sets[i].weight, notes |-> workout_sets[i].notes] :
        i \in {k \in 1..Len(workout_sets) :
                  /\ workout_sets[k].workout_id = last.value.id
                  /\ workout_sets[k].exercise_id = exercise_id}}

\* C14: summary of a workout returns exactly the sets stored for that workout,
\* grouped so that each exercise appears in one group under its display name,
\* with the sets of each group in ascending set number.
C14_SummaryGroups ==
    Summarized =>
        LET groups == last.value.exercises IN
        /\ \A g, h \in 1..Len(groups) :
              g # h => groups[g].exercise_id # groups[h].exercise_id
        /\ {groups[g].exercise_id : g \in 1..Len(groups)} = LoggedIn(last.value.id)
        /\ \A g \in 1..Len(groups) :
              /\ \E e \in 1..Len(exercises) :
                    /\ exercises[e].id = groups[g].exercise_id
                    /\ exercises[e].display_name = groups[g].name
              /\ Range(groups[g].sets) = C14_StoredSets(groups[g].exercise_id)
              /\ Len(groups[g].sets) = Cardinality(C14_StoredSets(groups[g].exercise_id))
              /\ \A i, j \in 1..Len(groups[g].sets) :
                    i < j => groups[g].sets[i].set < groups[g].sets[j].set

\* after start and one logSet of two sets {reps 5, weight 100} for one
\* exercise, summary shows one group with the sets numbered 1 and 2
C14_Witness ==
    /\ Summarized
    /\ Len(workout_sets) = 2
    /\ Len(last.value.exercises) = 1
    /\ last.value.exercises[1].sets =
          <<[set |-> 1, reps |-> 5, weight |-> 100, notes |-> NoneStr],
            [set |-> 2, reps |-> 5, weight |-> 100, notes |-> NoneStr]>>

\* C15: end fails with NoActiveWorkout when no workout is current and then
\* changes nothing; when a workout is current, end clears the current-workout
\* pointer and the workout record with all its sets is still in the store, so
\* that a second end without a start in between fails with NoActiveWorkout.
C15_EndClearsPointer ==
    [][\A final_notes \in FinalNotes :
          end_workout(final_notes) =>
              IF current_workout_id = NoId
              THEN /\ last'.error = NoActiveWorkout
                   /\ tables' = tables
                   /\ current_workout_id' = NoId
              ELSE /\ current_workout_id' = NoId
                   /\ \E i \in 1..Len(workouts') : workouts'[i].id = current_workout_id
                   /\ workout_sets' = workout_sets]_vars

-----------------------------------------------------------------------------
(* Claims about handles, checked under Spec and SpecRegistry *)

\* C16: every public operation closes the database handle it opened before
\* control goes back to the caller, whether it succeeds or fails: between two
\* operations no handle and no uncommitted transaction is left open.
C16_NoHandleLeftOpen == leakedHandles = 0 /\ ~openTxn.active

\* the template entries made of a list of names
EntriesOf(names) == [i \in 1..Len(names) |-> Entry(names[i], NoneNum, NoneNum)]

\* C17: template creation fails with InvalidArgument when the exercise list is
\* empty or when any entry, at any position of the list, lacks a name.
C17_NamelessEntryRejected ==
    [][\A names \in SeqsUpTo(TemplateNames, MaxEntries) :
          (/\ names = <<>> \/ \E i \in 1..Len(names) : names[i] = NoName
           /\ create_template("Push Day", EntriesOf(names)))
          => last'.error = InvalidArgument]_vars

\* C18: no exercise with an empty normalized name is ever in the registry:
\* resolving a name that is empty after trimming fails with InvalidArgument on
\* every path that reaches findOrCreate, explicit registration and template
\* creation with a whitespace-only entry name.
C18_NoEmptyName == \A i \in 1..Len(exercises) : exercises[i].name # <<>>

\* the rows of the registry that have the key of a name
C19_RowsOfKey(name) ==
    SelectSeq(exercises, LAMBDA row : C3_Key(row.display_name) = C3_Key(name))

\* a successful register of a name whose key is in the registry reports the
\* existing row (its id, display name and category) with status already_exists
\* and writes nothing; otherwise it reports status success and adds one row
C19_RegisterHit ==
    (/\ last'.op = "create_exercise" /\ last'.error = "ok"
     /\ \E category \in Categories : create_exercise(last'.args[1], category))
    => IF C19_RowsOfKey(last'.args[1]) # <<>>
       THEN /\ last'.value.status = "already_exists"
            /\ last'.value.id = C19_RowsOfKey(last'.args[1])[1].id
            /\ last'.value.name = C19_RowsOfKey(last'.args[1])[1].display_name
            /\ last'.value.category = C19_RowsOfKey(last'.args[1])[1].category
            /\ exercises' = exercises
       ELSE /\ last'.value.status = "success"
            /\ Len(exercises') = Len(exercises) + 1

\* a template creation returns, for an entry whose key is in the registry, the
\* id of the existing row
C19_TemplateHit ==
    (last'.op = "create_template" /\ last'.error = "ok" /\ templates' # templates) =>
        \A k \in 1..Len(last'.value.exercises) :
            C19_RowsOfKey(last'.value.exercises[k].name) # <<>> =>
                last'.value.exercises[k].exercise_id =
                    C19_RowsOfKey(last'.value.exercises[k].name)[1].id

\* no step changes the id, the display name or the category of a row
C19_FirstWritten ==
    /\ Len(exercises') >= Len(exercises)
    /\ \A i \in 1..Len(exercises) :
          /\ exercises'[i].id = exercises[i].id
          /\ exercises'[i].display_name = exercises[i].display_name
          /\ exercises'[i].category = exercises[i].category

\* C19: first registration wins: once an exercise exists, every later register
\* or template-creation reference to a name with the same normalized key
\* returns the existing id and leaves the exercise's display name and category
\* as first written, whatever casing, spacing or category the later call gives;
\* register reports such a hit with a status different from that of a fresh
\* insert.
C19_FirstRegistrationWins ==
    /\ [][C19_RegisterHit]_vars
    /\ [][C19_TemplateHit]_vars
    /\ [][C19_FirstWritten]_vars

\* register has reported a hit for a name spelled otherwise than the display
\* name of the row, which keeps the category chest it was first given
C19_Witness ==
    /\ last.op = "create_exercise" /\ last.error = "ok"
    /\ last.value.status = "already_exists"
    /\ last.args[1] # last.value.name
    /\ Strip(last.args[1]) # last.value.name
    /\ last.value.category = "chest"
    /\ \E i \in 1..Len(exercises) :
          /\ exercises[i].id = last.value.id
          /\ exercises[i].category = "chest"
          /\ exercises[i].display_name = last.value.name

-----------------------------------------------------------------------------
(* Claims about guided set logging, checked under SpecCoach *)

\* the last operation was a logSet with guidance that succeeded
Guided ==
    /\ last.op = "log_exercise"
    /\ last.error = "ok"
    /\ "guidance" \in DOMAIN last.value

GuidedTarget == IF last.args[1] # NoId THEN last.args[1] ELSE current_workout_id

GuidedTemplate == last.args[2]

\* the sets of the logged exercise that the store holds for the target workout
GuidedStored ==
    Cardinality({i \in 1..Len(workout_sets) :
                    /\ workout_sets[i].workout_id = GuidedTarget
                    /\ workout_sets[i].exercise_id = last.value.exercise_id})

\* what infer gives in this state for the logged exercise and the target
\* workout, for every order the candidate query can come back in
GuidedInferences ==
    {InferResult(last.value.exercise_id, GuidedTarget,
                 Distinct([i \in 1..Len(scan) |-> scan[i][1]])) :
        scan \in ScanOrders(CandidateRows(last.value.exercise_id))}

\* the entries that a progress object holds for the logged exercise
GuidedEntries(progress) ==
    LET all == progress.completed \o progress.remaining IN
    {all[i] : i \in {k \in 1..Len(all) : all[k].exercise_id = last.value.exercise_id}}

C20_Written ==
    /\ ~openTxn.active
    /\ Len(workout_sets) >= last.value.sets_logged
    /\ \A i \in 1..last.value.sets_logged :
          LET r == workout_sets[Len(workout_sets) - last.value.sets_logged + i] IN
          r.workout_id = GuidedTarget /\ r.exercise_id = last.value.exercise_id

C20_Supplied ==
    GuidedTemplate # NoId =>
        /\ last.value.guidance.template_inference = NoInference
        /\ last.value.guidance.template_id = GuidedTemplate
        /\ last.value.guidance.progress =
               _compute_template_progress(GuidedTemplate, GuidedTarget)

C20_NotSupplied ==
    GuidedTemplate = NoId =>
        LET inferred == last.value.guidance.template_inference IN
        /\ inferred \in GuidedInferences
        /\ IF inferred.status = "success"
           THEN /\ last.value.guidance.template_id = inferred.template.id
                /\ last.value.guidance.progress = inferred.progress
           ELSE /\ last.value.guidance.template_id = NoId
                /\ last.value.guidance.progress = NoProgress

C20_CountsThisCall ==
    last.value.guidance.progress # NoProgress =>
        \A entry \in GuidedEntries(last.value.guidance.progress) :
            /\ entry.sets_done = GuidedStored
            /\ entry.sets_done >= last.value.sets_logged

C20_LastPerformance ==
    last.value.guidance.last_performance =
        _get_last_exercise_sets(last.value.exercise_id, GuidedTarget)

\* C20: a logSet with guidance has written and committed its sets when it
\* answers; with a template given its guidance holds no inference and the
\* progress of that template, without one it holds what infer gives for the
\* logged exercise and the target workout; either way the progress counts the
\* sets of this call, and the guidance holds the last-performance lookup
C20_GuidanceAfterWrite ==
    Guided => /\ C20_Written
              /\ C20_Supplied
              /\ C20_NotSupplied
              /\ C20_CountsThisCall
              /\ C20_LastPerformance

\* a guided logSet without template whose inference chose between two
\* templates, and whose progress counts the two sets the call wrote
C20_Witness ==
    /\ Guided
    /\ GuidedTemplate = NoId
    /\ last.value.sets_logged = 2
    /\ last.value.guidance.template_inference.status = "success"
    /\ last.value.guidance.template_inference.reason = "best_overlap"
    /\ \E entry \in GuidedEntries(last.value.guidance.progress) : entry.sets_done = 2

-----------------------------------------------------------------------------
(* Claims about the last-performance lookup, checked under SpecGuide *)

\* the positions of the workouts other than the inferred target that hold a
\* set of the inferred exercise
C21_Others ==
    {i \in 1..Len(workouts) :
        /\ workouts[i].id # InferredTarget
        /\ \E k \in 1..Len(workout_sets) :
              /\ workout_sets[k].workout_id = workouts[i].id
              /\ workout_sets[k].exercise_id = InferredExercise}

\* the stored sets of the inferred exercise in one workout, as reported
C21_StoredSets(workout_id) ==
    {[set |-> workout_sets[k].set_number, reps |-> workout_sets[k].reps,
      weight |-> workout_sets[k].weight, notes |-> workout_sets[k].notes] :
        k \in {n \in 1..Len(workout_sets) :
                  /\ workout_sets[n].workout_id = workout_id
                  /\ workout_sets[n].exercise_id = InferredExercise}}

\* the last performance is the latest of the other workouts with the exercise,
\* with its sets in ascending set number, and the marker when there is none
C21_LatestOther ==
    (Inferred /\ "last_performance" \in DOMAIN last.value) =>
        LET lp == last.value.last_performance IN
        /\ (lp.workout_id = NoId) <=> (C21_Others = {})
        /\ lp.workout_id = NoId => lp.sets = <<>>
        /\ lp.workout_id # NoId =>
              /\ lp.workout_id # InferredTarget
              /\ \E i \in C21_Others :
                    /\ workouts[i].id = lp.workout_id
                    /\ lp.date = workouts[i].date
                    /\ \A j \in C21_Others : workouts[j].date <= workouts[i].date
              /\ \A i, j \in 1..Len(lp.sets) : i < j => lp.sets[i].set < lp.sets[j].set
              /\ {lp.sets[i] : i \in 1..Len(lp.sets)} = C21_StoredSets(lp.workout_id)

\* the workout named is not later than the target workout
C21_NotLaterThanTarget ==
    (Inferred /\ "last_performance" \in DOMAIN last.value) =>
        LET lp == last.value.last_performance IN
        lp.workout_id # NoId =>
            \A i \in 1..Len(workouts) :
                workouts[i].id = InferredTarget => lp.date <= workouts[i].date

\* C21: the last performance reported for an exercise and a target workout is
\* never the target itself: it is the workout of latest date among the others
\* that hold a set of the exercise, with the sets of the exercise in ascending
\* set number, the no-prior-data marker exactly when there is no such workout,
\* and the workout it names is not later than the target workout.
C21_LastPerformancePrior == C21_LatestOther /\ C21_NotLaterThanTarget

-----------------------------------------------------------------------------
(* Claims about the notes that end writes, checked under SpecSession *)

\* C22: an end that is given finalNotes, whatever their value, leaves exactly
\* finalNotes as the stored notes of the ended workout; an end without
\* finalNotes leaves the stored notes as they were.
C22_EndOverwritesNotes ==
    [][\A final_notes \in FinalNotes :
          (/\ WorkoutById(current_workout_id) # <<>>
           /\ end_workout(final_notes)
           /\ last'.error = "ok")
          => \A i \in 1..Len(workouts) :
                workouts[i].id = current_workout_id =>
                    /\ Len(workouts') = Len(workouts)
                    /\ workouts'[i].notes = IF final_notes # NoneStr THEN final_notes
                                            ELSE workouts[i].notes]_vars

-----------------------------------------------------------------------------
(* Claims about the permanence of the records, checked under SpecSession *)

\* C23: a set, once committed, stays in the store with the same workout,
\* exercise, set number, reps, weight and notes through every later operation,
\* and no exercise and no workout record is ever deleted.
C23_RecordsPermanent ==
    [][/\ \A i \in 1..Len(workout_sets) :
             \E j \in 1..Len(workout_sets') : workout_sets'[j] = workout_sets[i]
       /\ \A i \in 1..Len(exercises) :
             \E j \in 1..Len(exercises') : exercises'[j].id = exercises[i].id
       /\ \A i \in 1..Len(workouts) :
             \E j \in 1..Len(workouts') : workouts'[j].id = workouts[i].id]_vars

\* the sets of a workout that was ended are still stored after sets were
\* logged into a later workout and that one was ended too
C23_Witness ==
    /\ last.op = "end_workout" /\ last.error = "ok"
    /\ Len(workouts) = 2
    /\ \E i, j \in 1..Len(workout_sets) :
          /\ workout_sets[i].workout_id = workouts[1].id
          /\ workout_sets[j].workout_id = workouts[2].id

-----------------------------------------------------------------------------
(* Claims about the references of the stored sets, checked under Spec *)

\* every stored set names an exercise of the registry and a stored workout
C24_SetsReferToRecords ==
    \A i \in 1..Len(workout_sets) :
        /\ ExerciseById(workout_sets[i].exercise_id) # <<>>
        /\ WorkoutById(workout_sets[i].workout_id) # <<>>

\* a logSet for an exercise id that the registry does not hold, with a target
\* workout given or current, fails with NotFound and writes nothing
C24_UnknownExerciseRejected ==
    last'.op = "log_exercise" =>
        \A exercise_id \in ExerciseIds, sets_data \in Batches,
           workout_id \in WorkoutIds \cup {NoId} :
            (/\ ExerciseById(exercise_id) = <<>>
             /\ TargetWorkout(workout_id) # NoId
             /\ log_exercise(exercise_id, sets_data, workout_id))
            => (last'.error = NotFound /\ tables' = tables)

-----------------------------------------------------------------------------
(* Claims about the choice among several candidates, checked under SpecGuide *)

\* the number of exercises of a template that are logged in the workout; 0
\* when no workout is known
C25_Overlap(template_id, workout_id) ==
    Cardinality(ExerciseSet(template_id)
                \cap (IF workout_id = NoId THEN {} ELSE LoggedIn(workout_id)))

\* candidates[k] has the greatest overlap and is the first scanned that has it
C25_FirstBest(candidates, k, workout_id) ==
    \A j \in 1..Len(candidates) :
        /\ C25_Overlap(candidates[j], workout_id) <= C25_Overlap(candidates[k], workout_id)
        /\ j < k => C25_Overlap(candidates[j], workout_id)
                        < C25_Overlap(candidates[k], workout_id)

\* what infer returns in this state, for every exercise, workout and scan
\* order with several candidates
C25_EveryScan ==
    \A exercise_id \in ExerciseIds, workout_id \in WorkoutIds \cup {NoId} :
        \A scan \in ScanOrders(CandidateRows(exercise_id)) :
            LET candidates == Distinct([i \in 1..Len(scan) |-> scan[i][1]])
                result == InferResult(exercise_id, TargetWorkout(workout_id), candidates)
            IN Len(candidates) > 1 =>
                  /\ result.status = "success"
                  /\ result.reason = "best_overlap"
                  /\ \E k \in 1..Len(candidates) :
                        /\ candidates[k] = result.template.id
                        /\ C25_FirstBest(candidates, k, TargetWorkout(workout_id))

\* the answer infer has given is the one of some scan order
C25_Answered ==
    Inferred =>
        \E scan \in ScanOrders(CandidateRows(InferredExercise)) :
            last.value = InferResult(InferredExercise, InferredTarget,
                                     Distinct([i \in 1..Len(scan) |-> scan[i][1]]))

\* C25: with several candidate templates infer returns reason best_overlap and
\* a template whose overlap with the exercises logged in the target workout (0
\* for every candidate when no workout is known) is the greatest among the
\* candidates, and among those of greatest overlap the one scanned first.
C25_BestOverlapFirstScanned == C25_EveryScan /\ C25_Answered

\* infer has chosen between two templates that both contain an exercise logged
\* in the target workout
C25_Witness ==
    /\ Inferred
    /\ last.value.status = "success"
    /\ last.value.reason = "best_overlap"
    /\ InferredTarget # NoId
    /\ \A t \in ActiveTemplatesWith(InferredExercise) :
          C25_Overlap(t, InferredTarget) = 1

-----------------------------------------------------------------------------
(* Claims about two engines on one file, checked under SpecPair *)

\* C26: the set numbers of a (workout, exercise) pair stay unique when two
\* logSet calls for the pair go through two handles and their steps
\* interleave: no two stored sets of the pair have the same number.
C26_SetNumbersUnique ==
    \A i, j \in 1..Len(workout_sets) :
        (/\ i # j
         /\ workout_sets[i].workout_id = workout_sets[j].workout_id
         /\ workout_sets[i].exercise_id = workout_sets[j].exercise_id)
        => workout_sets[i].set_number # workout_sets[j].set_number

-----------------------------------------------------------------------------
(* Claims about the current-workout pointer, checked under Spec *)

\* C27: whenever the current-workout pointer is set it names a workout record
\* of the store, after every sequence of calls, a start whose write to the
\* database failed included.
C27_PointerNamesRecord ==
    current_workout_id # NoId => WorkoutById(current_workout_id) # <<>>

-----------------------------------------------------------------------------
(* Claims about progress over time, checked under SpecCoach *)

\* the entries of a progress object
C28_Entries(progress) == progress.completed \o progress.remaining

\* what tells the entries of one template apart
C28_Key(entry) == <<entry.exercise_id, entry.order, entry.target_sets>>

\* the rows of template_exercises of one template
C28_Rows(template_id) ==
    SelectSeq(template_exercises, LAMBDA te : te.template_id = template_id)

\* from progress before to progress after, no entry has fewer sets done and no
\* completed entry is among the remaining ones
C28_Monotone(before, after) ==
    \A i \in 1..Len(C28_Entries(before)), j \in 1..Len(C28_Entries(after)) :
        C28_Key(C28_Entries(before)[i]) = C28_Key(C28_Entries(after)[j]) =>
            /\ C28_Entries(after)[j].sets_done >= C28_Entries(before)[i].sets_done
            /\ i <= Len(before.completed) => j <= Len(after.completed)

\* completed and remaining hold every entry of the template as often as the
\* template lists it, and nothing else
C28_EachOnce(template_id, progress) ==
    LET rows == C28_Rows(template_id)
        entries == C28_Entries(progress)
    IN /\ Len(entries) = Len(rows)
       /\ \A k \in 1..Len(rows) :
             Cardinality({i \in 1..Len(entries) :
                             C28_Key(entries[i]) = <<rows[k].exercise_id, rows[k].order_index,
                                                     rows[k].target_sets>>})
               = Cardinality({n \in 1..Len(rows) :
                                 /\ rows[n].exercise_id = rows[k].exercise_id
                                 /\ rows[n].order_index = rows[k].order_index
                                 /\ rows[n].target_sets = rows[k].target_sets})

\* one step: the entries of every stored template stay as they are, and its
\* progress in every workout, before the step and over the sets stored after it
C28_Step ==
    \A template_id \in TemplateIds \ {UnknownId}, workout_id \in WorkoutIds :
        /\ SelectSeq(template_exercises', LAMBDA te : te.template_id = template_id)
              = C28_Rows(template_id)
        /\ \A i \in 1..Len(exercises) : exercises'[i] = exercises[i]
        /\ \A before \in {_compute_template_progress(template_id, workout_id)},
              after \in {ProgressIn(workout_sets', template_id, workout_id)} :
               /\ C28_EachOnce(template_id, before)
               /\ C28_EachOnce(template_id, after)
               /\ C28_Monotone(before, after)

\* C28: for a fixed template and workout, across every later operation the
\* sets done of a template entry never decrease, an entry once completed is
\* never among the remaining again, and completed and remaining together hold
\* each template entry exactly once.
C28_ProgressMonotone == [][C28_Step]_vars

\* progress was reported for a template of which one entry is completed with
\* more sets than its target and another entry is remaining
C28_Witness ==
    /\ Guided
    /\ last.value.guidance.progress # NoProgress
    /\ \E i \in 1..Len(last.value.guidance.progress.completed) :
          last.value.guidance.progress.completed[i].sets_done
              > last.value.guidance.progress.completed[i].target_sets
    /\ last.value.guidance.progress.remaining # <<>>

-----------------------------------------------------------------------------
(* Claims about failed template creation, checked under SpecRegistry *)

\* a creation whose first entry has a name and whose later entry has none, and
\* that ends with an error, leaves every table as it was
C29_FailureWritesNothing ==
    \A names \in SeqsUpTo(TemplateNames, MaxEntries) :
        (/\ Len(names) > 1
         /\ names[1] # NoName
         /\ \E i \in 2..Len(names) : names[i] = NoName
         /\ create_template("Push Day", EntriesOf(names)))
        => /\ last'.error # "ok"
           /\ tables' = tables

\* the end of a handle that was left open brings no row into the tables
C29_HandleEndWritesNothing ==
    leakedHandles' < leakedHandles => tables' = tables

\* C29: a template creation that fails because a later entry of its list has
\* no name leaves the store as it was: the template row, the template-exercise
\* rows and the exercises registered for the earlier entries are in no table,
\* neither after the call nor after the handle of the call has ended.
C29_FailedCreateInvisible ==
    [][C29_FailureWritesNothing]_vars /\ [][C29_HandleEndWritesNothing]_vars

\* a creation has failed on a nameless entry after it had written the template
\* row and registered an exercise for an earlier entry
C29_Witness ==
    /\ last.op = "create_template" /\ last.error = InvalidArgument
    /\ openTxn.active
    /\ openTxn.templates # <<>>
    /\ openTxn.exercises # <<>>

-----------------------------------------------------------------------------
(* Claims about what moves the current-workout pointer, checked under SpecTools *)

\* a step that changes the pointer is a start or an end
C30_OnlyStartAndEnd ==
    /\ current_workout_id' # current_workout_id =>
          last'.op \in {"start_workout", "end_workout"}
    /\ last' = last => current_workout_id' = current_workout_id

\* a start that succeeds while the pointer names a stored workout makes the new
\* workout the current one and keeps every workout and every set that was stored
C30_StartMovesPointer ==
    (/\ last' # last
     /\ last'.op = "start_workout" /\ last'.error = "ok"
     /\ WorkoutById(current_workout_id) # <<>>)
    => /\ current_workout_id' = last'.value.workout_id
       /\ current_workout_id' # current_workout_id
       /\ Len(workouts') = Len(workouts) + 1
       /\ workouts'[Len(workouts')].id = current_workout_id'
       /\ \A i \in 1..Len(workouts) : workouts'[i] = workouts[i]
       /\ workout_sets' = workout_sets

\* C30: only start and end change the current-workout pointer; logSet with or
\* without a workout id and with or without guidance, summary, history,
\* exerciseHistory, infer, getTemplateProgress, register, search, template
\* creation and listing leave it as it is, whether they succeed or fail; a
\* start issued while a workout is current moves the pointer to the new workout
\* and leaves the earlier workout and its sets in the store.
C30_PointerFrame == [][C30_OnlyStartAndEnd]_vars /\ [][C30_StartMovesPointer]_vars

\* a second workout was started while the store held a set of the first one
C30_Witness ==
    /\ last.op = "start_workout" /\ last.error = "ok"
    /\ Len(workouts) = 2
    /\ current_workout_id = workouts[2].id
    /\ \E i \in 1..Len(workout_sets) : workout_sets[i].workout_id = workouts[1].id

====
